---- MODULE Spec2Model ----
(***************************************************************************)
(* Model of the experiment orchestration and checkpoint/resume engine of   *)
(* the face-recognition experiment repository:                             *)
(*   - EarlyStopping and prune_checkpoints   (src/src/training_utils.py)   *)
(*   - ExperimentConfig                      (src/src/experiment_manager.py)*)
(*   - the sweep over preprocessing x dataset x architecture               *)
(*                             (src/src/run_comprehensive_experiment.py)   *)
(*   - the rerun planner                     (src/rerun_experiment.py)     *)
(* Each subsystem has its own specification (SpecES, SpecPrune, SpecCfg,   *)
(* SpecSweep, SpecRerun); the variables of the other subsystems stay at    *)
(* their idle value.                                                       *)
(***************************************************************************)
EXTENDS Integers, Sequences, FiniteSets, TLC

VARIABLES
    es,          \* the EarlyStopping instance (its attributes)
    returned,    \* history: the value returned by each call on es, in order
    ckpt_dir,    \* the checkpoint directory: file name -> [mtime, matches]
    lastPrune,   \* history: the arguments and outcome of the last prune_checkpoints call
    cfg,         \* the ExperimentConfig instance (its attributes)
    loaded,      \* the result of the last save/load round trip of cfg
    lastOp,      \* history: the last operation applied to cfg
    sw,          \* the sweep orchestrator's local variables
    rr,          \* the rerun driver's local variables and the sweep tree
    cv,          \* one k-fold run: the fold loop's local variables
    ho,          \* one hyperparameter-search trial
    tr,          \* one training unit, its process and its checkpoint directory
    config_dict, \* the dict handed to ExperimentConfig.from_dict
    mon,         \* the process's ResourceMonitor instances and their threads
    out          \* OUT_DIR at the start of a sweep and the cleanup's local variables

vars == <<es, returned, ckpt_dir, lastPrune, cfg, loaded, lastOp, sw, rr, cv, ho, tr, config_dict, mon, out>>

Min(a, b) == IF a < b THEN a ELSE b

ToSet(q) == {q[i] : i \in DOMAIN q}

(***************************************************************************)
(* Early-stopping monitor                                                  *)
(***************************************************************************)
MaxPatience == 3   \* patience ranges over 1..MaxPatience
MaxDelta    == 1   \* min_delta ranges over 0..MaxDelta
MaxScore    == 2   \* scores range over 0..MaxScore
MaxObs      == 5   \* at most MaxObs calls on one instance

Modes == {"min", "max"}

\* EarlyStopping.__init__: best_score is +inf (mode min) or -inf (mode max),
\* held as fin = FALSE until the first finite score replaces it.
NewEarlyStopping(p, d, m) ==
    [patience   |-> p,
     min_delta  |-> d,
     counter    |-> 0,
     mode       |-> m,
     early_stop |-> FALSE,
     trace      |-> <<>>,
     best_score |-> [fin |-> FALSE, v |-> 0]]

\* A slip the checks must notice: a score exactly min_delta better than the
\* best counts as an improvement.
val_comp_or_equal(e, score) ==
    IF e.mode = "min"
    THEN (~e.best_score.fin) \/ score <= e.best_score.v - e.min_delta
    ELSE (~e.best_score.fin) \/ score >= e.best_score.v + e.min_delta

\* self.val_comp: the improvement test chosen by the mode.
val_comp(e, score) ==
    IF e.mode = "min"
    THEN (~e.best_score.fin) \/ score < e.best_score.v - e.min_delta
    ELSE (~e.best_score.fin) \/ score > e.best_score.v + e.min_delta

\* A slip the checks must notice: the counter is not reset on improvement.
CallNoReset(e, val_score) ==
    LET t == [e EXCEPT !.trace = Append(@, val_score)]
    IN  IF val_comp(e, val_score)
        THEN [state |-> [t EXCEPT !.best_score = [fin |-> TRUE, v |-> val_score]],
              ret   |-> TRUE]
        ELSE [state |-> [t EXCEPT !.counter = @ + 1,
                                  !.early_stop = @ \/ (e.counter + 1 >= e.patience)],
              ret   |-> FALSE]

\* A slip the checks must notice: only improving scores are appended to trace.
CallTraceOnImprove(e, val_score) ==
    IF val_comp(e, val_score)
    THEN [state |-> [e EXCEPT !.trace = Append(@, val_score),
                              !.best_score = [fin |-> TRUE, v |-> val_score],
                              !.counter = 0],
          ret   |-> TRUE]
    ELSE [state |-> [e EXCEPT !.counter = @ + 1,
                              !.early_stop = @ \/ (e.counter + 1 >= e.patience)],
          ret   |-> FALSE]

\* A slip the checks must notice: an improvement clears early_stop.
CallClearsStop(e, val_score) ==
    LET t == [e EXCEPT !.trace = Append(@, val_score)]
    IN  IF val_comp(e, val_score)
        THEN [state |-> [t EXCEPT !.best_score = [fin |-> TRUE, v |-> val_score],
                                  !.counter = 0,
                                  !.early_stop = FALSE],
              ret   |-> TRUE]
        ELSE [state |-> [t EXCEPT !.counter = @ + 1,
                                  !.early_stop = @ \/ (e.counter + 1 >= e.patience)],
              ret   |-> FALSE]

\* EarlyStopping.__call__: the new attributes and the returned value.
Call(e, val_score) ==
    LET t == [e EXCEPT !.trace = Append(@, val_score)]
    IN  IF val_comp(e, val_score)
        THEN [state |-> [t EXCEPT !.best_score = [fin |-> TRUE, v |-> val_score],
                                  !.counter = 0],
              ret   |-> TRUE]
        ELSE [state |-> [t EXCEPT !.counter = @ + 1,
                                  !.early_stop = @ \/ (e.counter + 1 >= e.patience)],
              ret   |-> FALSE]

ESInit ==
    /\ \E p \in 1..MaxPatience, d \in 0..MaxDelta, m \in Modes :
           es = NewEarlyStopping(p, d, m)
    /\ returned = <<>>

ESIdle ==
    /\ es = NewEarlyStopping(1, 0, "min")
    /\ returned = <<>>

\* One call es(val_score) by the training loop.
Observe ==
    /\ Len(returned) < MaxObs
    /\ \E score \in 0..MaxScore :
           LET r == Call(es, score)
           IN  /\ es' = r.state
               /\ returned' = Append(returned, r.ret)
    /\ UNCHANGED <<ckpt_dir, lastPrune, cfg, loaded, lastOp, sw, rr, cv, ho, tr, config_dict, mon, out>>

(***************************************************************************)
(* Checkpoint pruning                                                      *)
(***************************************************************************)
MaxFiles == 3   \* file names are 1..MaxFiles
MaxTime  == 2   \* modification times range over 0..MaxTime
MaxKeep  == 3   \* keep ranges over 0..MaxKeep

EmptyDir == [f \in {} |-> [mtime |-> 0, matches |-> FALSE]]

NoPrune == [called |-> FALSE, before |-> EmptyDir, keep |-> 0, failed |-> {}]

\* glob.glob(str(checkpoint_dir / pattern)): the files whose name matches.
Matching(dir) == {f \in DOMAIN dir : dir[f].matches}

\* All listings of a set of files, one per order.
Listings(S) ==
    {s \in [1..Cardinality(S) -> S] : \A i, j \in DOMAIN s : i # j => s[i] # s[j]}

\* A slip the checks must notice: the sort puts the oldest file first.
IsOldestFirst(order, dir) ==
    \A i, j \in DOMAIN order : i < j => dir[order[i]].mtime <= dir[order[j]].mtime

\* checkpoint_files.sort(key=os.path.getmtime, reverse=True): the sort is stable,
\* and the glob order it starts from is arbitrary, so files of equal mtime may
\* come in any order.
IsNewestFirst(order, dir) ==
    \A i, j \in DOMAIN order : i < j => dir[order[i]].mtime >= dir[order[j]].mtime

\* checkpoint_files[keep:] for keep >= 0
Beyond(order, keep) == {order[i] : i \in (keep + 1)..Len(order)}

PruneInit ==
    /\ ckpt_dir = EmptyDir
    /\ lastPrune = NoPrune

\* A checkpoint (or any other file) is written into the directory.
WriteFile ==
    /\ \E f \in (1..MaxFiles) \ DOMAIN ckpt_dir, t \in 0..MaxTime, m \in BOOLEAN :
           ckpt_dir' = [g \in DOMAIN ckpt_dir \cup {f} |->
                           IF g = f THEN [mtime |-> t, matches |-> m] ELSE ckpt_dir[g]]
    /\ lastPrune' = NoPrune
    /\ UNCHANGED <<es, returned, cfg, loaded, lastOp, sw, rr, cv, ho, tr, config_dict, mon, out>>

\* prune_checkpoints(checkpoint_dir, keep, pattern). os.remove may raise for any
\* file (the exception is logged and the loop goes on): those files stay.
PruneCheckpoints ==
    /\ \E keep \in 0..MaxKeep, order \in Listings(Matching(ckpt_dir)) :
           /\ IsNewestFirst(order, ckpt_dir)
           /\ \E failing \in SUBSET Beyond(order, keep) :
                  LET removed == Beyond(order, keep) \ failing
                  IN  /\ ckpt_dir' = [g \in DOMAIN ckpt_dir \ removed |-> ckpt_dir[g]]
                      /\ lastPrune' = [called |-> TRUE, before |-> ckpt_dir,
                                       keep |-> keep, failed |-> failing]
    /\ UNCHANGED <<es, returned, cfg, loaded, lastOp, sw, rr, cv, ho, tr, config_dict, mon, out>>

(***************************************************************************)
(* ExperimentConfig                                                        *)
(*                                                                         *)
(* A Python value of a free-form field is a tagged record, so that a tuple *)
(* and a list of the same items differ. An Enum member is the record       *)
(* [enum, value]; its serialized form is the bare value string. The        *)
(* version string "M.m.p" is the tuple <<M, m, p>> of its dotted segments. *)
(* The scalar fields not listed (batch_size, learning_rate, random_seed,   *)
(* the early-stopping, clipping, checkpoint, evaluation and tracking       *)
(* flags) are passed through to_dict and from_dict exactly like epochs.    *)
(***************************************************************************)
MaxOps == 3   \* at most MaxOps operations on one config

PyInt(n)   == [t |-> "int", v |-> <<n>>]
PyStr(x)   == [t |-> "str", v |-> <<x>>]
PyList(q)  == [t |-> "list", v |-> q]
PyTuple(q) == [t |-> "tuple", v |-> q]

\* Enum members (ExperimentConfig.Dataset, .ModelArchitecture, ...)
Member(e, x) == [enum |-> e, value |-> x]

DatasetValues  == {"dataset1", "dataset2", "both"}
ArchValues     == {"baseline", "cnn", "siamese", "attention", "arcface", "hybrid"}
SchedValues    == {"none", "step", "exponential", "cosine", "reduce_on_plateau", "one_cycle"}
EvalModeValues == {"standard", "enhanced"}
TrackerValues  == {"none", "mlflow", "wandb"}

EmptyDict == [k \in {} |-> PyInt(0)]
Without(d, key) == [k \in DOMAIN d \ {key} |-> d[k]]
With(d, key, val) == [k \in DOMAIN d \cup {key} |-> IF k = key THEN val ELSE d[k]]

NoPreprocessing == [present |-> FALSE, fields |-> EmptyDict]

\* PreprocessingConfig.to_dict: the object's fields as a dict; final_size is
\* the tuple the object holds.
Preprocessing_to_dict(pc) == pc.fields

\* PreprocessingConfig.from_dict: an object holding the fields of the dict,
\* final_size again a tuple.
Preprocessing_from_dict(d) ==
    [present |-> TRUE,
     fields  |-> [k \in DOMAIN d |->
                     IF k = "final_size" /\ d[k].t = "list" THEN PyTuple(d[k].v) ELSE d[k]]]

\* ExperimentConfig.__init__ for the arguments from_dict and the sweep pass;
\* an architecture list is kept as given, a string becomes the Enum member.
NewConfig(a) ==
    [experiment_id       |-> a.experiment_id,
     experiment_name     |-> a.experiment_name,
     created_at          |-> a.now,
     dataset             |-> Member("Dataset", a.dataset),
     model_architecture  |-> IF a.model_architecture.t = "list"
                             THEN a.model_architecture
                             ELSE Member("ModelArchitecture", a.model_architecture.v[1]),
     preprocessing_config |-> a.preprocessing_config,
     epochs              |-> a.epochs,
     results_dir         |-> [path |-> a.results_dir],
     config_version      |-> a.config_version,
     config_history      |-> <<>>,
     lr_scheduler_type   |-> IF a.lr_scheduler_type \in SchedValues
                             THEN Member("LRSchedulerType", a.lr_scheduler_type)
                             ELSE Member("LRSchedulerType", "none"),
     lr_scheduler_params |-> a.lr_scheduler_params,
     resumable_training  |-> a.resumable_training,
     evaluation_mode     |-> Member("EvaluationMode", a.evaluation_mode),
     tracker_type        |-> IF a.tracker_type \in TrackerValues
                             THEN Member("TrackerType", a.tracker_type)
                             ELSE Member("TrackerType", "none"),
     tracking_tags       |-> a.tracking_tags]

\* ExperimentConfig.to_dict
to_dict(c) ==
    LET base ==
          [experiment_id       |-> c.experiment_id,
           experiment_name     |-> c.experiment_name,
           dataset             |-> c.dataset.value,
           model_architecture  |-> IF "enum" \in DOMAIN c.model_architecture
                                   THEN PyStr(c.model_architecture.value)
                                   ELSE c.model_architecture,
           epochs              |-> c.epochs,
           results_dir         |-> c.results_dir.path,
           created_at          |-> c.created_at,
           config_version      |-> c.config_version,
           config_history      |-> c.config_history,
           lr_scheduler_type   |-> c.lr_scheduler_type.value,
           lr_scheduler_params |-> c.lr_scheduler_params,
           resumable_training  |-> c.resumable_training,
           evaluation_mode     |-> c.evaluation_mode.value,
           tracker_type        |-> c.tracker_type.value,
           tracking_tags       |-> c.tracking_tags]
    IN  IF c.preprocessing_config.present
        THEN With(base, "preprocessing_config",
                  Preprocessing_to_dict(c.preprocessing_config))
        ELSE base

\* ExperimentConfig.from_dict for a dict holding every key to_dict writes.
from_dict(d) ==
    LET c == NewConfig(
               [experiment_id       |-> d["experiment_id"],
                experiment_name     |-> d["experiment_name"],
                now                 |-> 0,
                dataset             |-> d["dataset"],
                model_architecture  |-> d["model_architecture"],
                preprocessing_config |->
                    IF "preprocessing_config" \in DOMAIN d
                    THEN Preprocessing_from_dict(d["preprocessing_config"])
                    ELSE NoPreprocessing,
                epochs              |-> d["epochs"],
                results_dir         |-> d["results_dir"],
                config_version      |-> d["config_version"],
                lr_scheduler_type   |-> d["lr_scheduler_type"],
                lr_scheduler_params |-> d["lr_scheduler_params"],
                resumable_training  |-> d["resumable_training"],
                evaluation_mode     |-> d["evaluation_mode"],
                tracker_type        |-> d["tracker_type"],
                tracking_tags       |-> d["tracking_tags"]])
    IN  [c EXCEPT !.created_at = d["created_at"],
                  !.config_history = d["config_history"]]

\* A slip the checks must notice: the snapshot keeps its own history field.
add_to_history_nested(c, ts) ==
    [c EXCEPT !.config_history =
                  Append(@, [timestamp |-> ts, config |-> to_dict(c)])]

\* ExperimentConfig.add_to_history
add_to_history(c, ts) ==
    [c EXCEPT !.config_history =
                  Append(@, [timestamp |-> ts,
                             config |-> Without(to_dict(c), "config_history")])]

\* A slip the checks must notice: a minor bump leaves the patch segment alone.
bumped_no_reset(v, level) ==
    CASE level = "major" -> <<v[1] + 1, 0, 0>>
      [] level = "minor" -> <<v[1], v[2] + 1, v[3]>>
      [] OTHER           -> <<v[1], v[2], v[3] + 1>>

\* increment_version: the new version segments for the level.
bumped(v, level) ==
    CASE level = "major" -> <<v[1] + 1, 0, 0>>
      [] level = "minor" -> <<v[1], v[2] + 1, 0>>
      [] OTHER           -> <<v[1], v[2], v[3] + 1>>

\* ExperimentConfig.increment_version: snapshot first, then the new version.
increment_version(c, level, ts) ==
    [add_to_history(c, ts) EXCEPT !.config_version = bumped(c.config_version, level)]

\* json.dump then json.load of a value: a tuple is written as an array and
\* read back as a list.
JsonValue(x) == IF x.t = "tuple" THEN PyList(x.v) ELSE x

\* yaml.dump of a value: a tuple is written with the tag !!python/tuple.
YamlValue(x) == IF x.t = "tuple" THEN [t |-> "!!python/tuple", v |-> x.v] ELSE x

\* A value as the format writes it.
Dumped(fmt, x) == IF fmt = "json" THEN JsonValue(x) ELSE YamlValue(x)

\* A dict of free-form values as the format writes it.
MapDict(d, fmt) == [k \in DOMAIN d |-> Dumped(fmt, d[k])]

\* One config dict as the format writes it: its free-form values dumped.
MapFlat(d, fmt) ==
    [k \in DOMAIN d |->
        IF k \in {"lr_scheduler_params", "tracking_tags", "preprocessing_config"}
        THEN MapDict(d[k], fmt)
        ELSE IF k = "model_architecture" THEN Dumped(fmt, d[k]) ELSE d[k]]

\* The same over the dict and the config dicts of its history entries.
MapDoc(d, fmt) ==
    LET top == MapFlat(d, fmt)
    IN  [top EXCEPT !["config_history"] =
            [i \in DOMAIN d["config_history"] |->
                [timestamp |-> d["config_history"][i].timestamp,
                 config    |-> MapFlat(d["config_history"][i].config, fmt)]]]

\* yaml.safe_load refuses every python-specific tag (ConstructorError).
FlatHasPythonTag(d) ==
    \/ \E k \in DOMAIN d \cap {"lr_scheduler_params", "tracking_tags", "preprocessing_config"} :
           \E j \in DOMAIN d[k] : d[k][j].t = "!!python/tuple"
    \/ d["model_architecture"].t = "!!python/tuple"

HasPythonTag(doc) ==
    \/ FlatHasPythonTag(doc)
    \/ \E i \in DOMAIN doc["config_history"] :
           FlatHasPythonTag(doc["config_history"][i].config)

\* save() then load(): json.dump(self.to_dict()), json.load, from_dict
JsonRoundTrip(c) == [ok |-> TRUE, config |-> from_dict(MapDoc(to_dict(c), "json"))]

\* save_yaml() then load_yaml(): yaml.dump(self.to_dict()), yaml.safe_load, from_dict
YamlRoundTrip(c) ==
    LET doc == MapDoc(to_dict(c), "yaml")
    IN  IF HasPythonTag(doc)
        THEN [ok |-> FALSE, config |-> c]
        ELSE [ok |-> TRUE, config |-> from_dict(doc)]

NotLoaded == [ok |-> FALSE, config |-> "none"]

Levels == {"major", "minor", "patch"}

\* The configs the sweep and the tests build.
CfgInit ==
    /\ \E ds \in {"dataset1", "both"},
          arch \in {PyStr("cnn"), PyList(<<"cnn", "siamese">>)},
          pre \in {NoPreprocessing,
                   [present |-> TRUE,
                    fields |-> [name |-> PyStr("enhanced"),
                                final_size |-> PyTuple(<<224, 224>>)]]},
          params \in {EmptyDict, [step_size |-> PyInt(10)],
                      [milestones |-> PyTuple(<<10, 20>>)]} :
           cfg = NewConfig(
                   [experiment_id       |-> "exp",
                    experiment_name     |-> "Unnamed Experiment",
                    now                 |-> 0,
                    dataset             |-> ds,
                    model_architecture  |-> arch,
                    preprocessing_config |-> pre,
                    epochs              |-> 30,
                    results_dir         |-> "out/exp",
                    config_version      |-> <<1, 0, 0>>,
                    lr_scheduler_type   |-> "none",
                    lr_scheduler_params |-> params,
                    resumable_training  |-> TRUE,
                    evaluation_mode     |-> "standard",
                    tracker_type        |-> "none",
                    tracking_tags       |-> EmptyDict])
    /\ loaded = NotLoaded
    /\ lastOp = [op |-> "init", level |-> "none", n |-> 0]

CfgIdle == cfg = "idle" /\ loaded = NotLoaded /\ lastOp = [op |-> "idle", level |-> "none", n |-> 0]

\* config.increment_version(level)
IncrementVersion ==
    /\ lastOp.op # "idle" /\ lastOp.n < MaxOps
    /\ \E level \in Levels :
           /\ cfg' = increment_version(cfg, level, lastOp.n + 1)
           /\ lastOp' = [op |-> "increment_version", level |-> level, n |-> lastOp.n + 1]
    /\ UNCHANGED <<loaded, es, returned, ckpt_dir, lastPrune, sw, rr, cv, ho, tr, config_dict, mon, out>>

\* config.add_to_history() called on its own
AddToHistory ==
    /\ lastOp.op # "idle" /\ lastOp.n < MaxOps
    /\ cfg' = add_to_history(cfg, lastOp.n + 1)
    /\ lastOp' = [op |-> "add_to_history", level |-> "none", n |-> lastOp.n + 1]
    /\ UNCHANGED <<loaded, es, returned, ckpt_dir, lastPrune, sw, rr, cv, ho, tr, config_dict, mon, out>>

\* config.save(path) followed by ExperimentConfig.load(path)
SaveLoadJson ==
    /\ lastOp.op # "idle" /\ lastOp.n < MaxOps
    /\ loaded' = JsonRoundTrip(cfg)
    /\ lastOp' = [op |-> "json", level |-> "none", n |-> lastOp.n + 1]
    /\ UNCHANGED <<cfg, es, returned, ckpt_dir, lastPrune, sw, rr, cv, ho, tr, config_dict, mon, out>>

\* config.save_yaml(path) followed by ExperimentConfig.load_yaml(path)
SaveLoadYaml ==
    /\ lastOp.op # "idle" /\ lastOp.n < MaxOps
    /\ loaded' = YamlRoundTrip(cfg)
    /\ lastOp' = [op |-> "yaml", level |-> "none", n |-> lastOp.n + 1]
    /\ UNCHANGED <<cfg, es, returned, ckpt_dir, lastPrune, sw, rr, cv, ho, tr, config_dict, mon, out>>

(***************************************************************************)
(* Sweep orchestrator: run_comprehensive_face_recognition_experiment       *)
(*                                                                         *)
(* A unit is <<preprocessing, dataset, architecture>>; the identity the    *)
(* code appends to failed_architectures, f"{prep}_{dataset}_{arch}", is    *)
(* the same triple.                                                        *)
(***************************************************************************)
MaxArchs  == 2   \* at most MaxArchs architectures in all_architectures
MaxFreeGb == 5   \* free space readings range over 0..MaxFreeGb

MinGbStart    == 5   \* check before the sweep starts
MinGbEnhanced == 2   \* check before each unit of the enhanced pass
MinGbPass     == 2   \* check between the two passes
MinGbMinimal  == 1   \* check before each unit of the minimal pass

dataset_names == <<"dataset1", "dataset2">>

\* The order of the default all_architectures list, siamese moved forward so
\* that small bounds include it.
ArchOrder == <<"cnn", "siamese", "baseline", "attention", "arcface", "hybrid">>

\* all_architectures after the cv_config / models_to_rerun filters: the
\* non-empty sublists of the first MaxArchs architectures, order kept.
ArchLists ==
    LET n == Min(MaxArchs, Len(ArchOrder))
        Pick(S) == [i \in 1..Cardinality(S) |->
                       ArchOrder[CHOOSE k \in S : Cardinality({j \in S : j < k}) = i - 1]]
    IN  {Pick(S) : S \in (SUBSET (1..n)) \ {{}}}

\* check_disk_space(min_gb) for a reading of gb_free
check_disk_space(gb_free, min_gb) == ~(gb_free < min_gb)

NewSweep(archs) ==
    [pc                   |-> "start",
     all_architectures    |-> archs,
     pass                 |-> "enhanced",
     d                    |-> 1,
     a                    |-> 1,
     failed_architectures |-> <<>>,
     architecture_results |-> {},
     experiment_ids       |-> <<>>,
     configured           |-> archs,  \* all_architectures before the rerun filter
     models_to_rerun      |-> {},     \* {} stands for None
     on_disk              |-> {},     \* units with results recorded by the earlier sweep
     config_files         |-> {},     \* <<unit, format>> of the unit configs written to disk
     mlflow_installed     |-> TRUE,   \* `import mlflow` succeeds
     mlflow_available     |-> FALSE,  \* MLflowTracker.available
     mlflow_active        |-> FALSE,  \* MLflow has an active run
     \* history
     handled              |-> "none", \* what the handler's end_run of the latest unit did
     skipped              |-> {},     \* units whose free-space check reported low
     invoked              |-> {},     \* units for which training was invoked
     completed            |-> {},     \* units whose training returned
     raised               |-> {},     \* units that raised
     pass_skipped         |-> FALSE]  \* the check between the passes reported low

CurUnit(s) == <<s.pass, dataset_names[s.d], s.all_architectures[s.a]>>

AllUnits(s) ==
    {<<p, dataset_names[i], s.all_architectures[j]>> :
        p \in {"enhanced", "minimal"},
        i \in DOMAIN dataset_names,
        j \in DOMAIN s.all_architectures}

\* The for loops: the next architecture, else the next dataset, else the end
\* of the pass.
NextUnit(s) ==
    IF s.a < Len(s.all_architectures)
    THEN [s EXCEPT !.a = @ + 1, !.pc = "unit"]
    ELSE IF s.d < Len(dataset_names)
         THEN [s EXCEPT !.d = @ + 1, !.a = 1, !.pc = "unit"]
         ELSE IF s.pass = "enhanced"
              THEN [s EXCEPT !.pc = "pass_gate"]
              ELSE [s EXCEPT !.pc = "analysis"]

\* A slip the checks must notice: a low reading is reported but the unit is
\* trained all the same.
OnLowSpaceNoSkip(s) ==
    [s EXCEPT !.failed_architectures = Append(@, CurUnit(s)),
              !.skipped = @ \cup {CurUnit(s)},
              !.pc = "train"]

\* if not check_disk_space(...): failed_architectures.append(...); continue
OnLowSpace(s) ==
    NextUnit([s EXCEPT !.failed_architectures = Append(@, CurUnit(s)),
                       !.skipped = @ \cup {CurUnit(s)}])

\* A slip the checks must notice: the exception of a unit ends the sweep.
OnRaiseAbort(s) ==
    [s EXCEPT !.failed_architectures = Append(@, CurUnit(s)),
              !.invoked = @ \cup {CurUnit(s)},
              !.raised = @ \cup {CurUnit(s)},
              !.pc = "analysis"]

\* except Exception: failed_architectures.append(...); ...; continue
OnRaise(s) ==
    NextUnit([s EXCEPT !.failed_architectures = Append(@, CurUnit(s)),
                       !.invoked = @ \cup {CurUnit(s)},
                       !.raised = @ \cup {CurUnit(s)}])

\* The method of ExperimentManager through which the sweep runs a unit.
SweepEntry == "_run_single_model_experiment"

\* The config files a unit's start writes: run_experiment calls config.save()
\* and config.save_yaml() before it dispatches to the runner of the unit;
\* the runner itself, _run_single_model_experiment, writes neither.
ConfigSaved(files, unit, entry) ==
    IF entry = "run_experiment"
    THEN files \cup {<<unit, "json">>, <<unit, "yaml">>}
    ELSE files

\* The outcomes of a step that is open when it matters, else the one given.
Outcomes(open, else) == IF open THEN BOOLEAN ELSE {else}

\* ResultsManager(arch_config) -> setup_tracking -> tracker.start_run: with
\* the tracker available and no run active a run is started; MLflow refuses
\* a second run ("Run already active") and start_run swallows the error.
\* reached is FALSE for a unit that raises before its ResultsManager exists.
StartRun(s, reached) ==
    IF reached /\ s.mlflow_available /\ ~s.mlflow_active
    THEN [s EXCEPT !.mlflow_active = TRUE]
    ELSE s

\* The handler's clean-up: import mlflow, then try: mlflow.end_run() except
\* Exception: print(...). The import stands outside the try: without the
\* mlflow package its ImportError leaves the handler and the sweep. Without
\* an active run end_run does nothing. When end_run raises the error is
\* printed and the run is left in whichever state MLflow left it.
CleanUpRun(s, end_raises, left) ==
    IF ~s.mlflow_installed
    THEN [s EXCEPT !.handled = "import_raised", !.pc = "crashed"]
    ELSE IF ~s.mlflow_active
         THEN [s EXCEPT !.handled = "no_run"]
         ELSE IF end_raises
              THEN [s EXCEPT !.handled = "end_raised", !.mlflow_active = left]
              ELSE [s EXCEPT !.handled = "ended", !.mlflow_active = FALSE]

\* The run of a unit whose training returned: the standard runner ends it
\* in generate_experiment_summary (tracker.end_run, errors logged); the
\* special handlers of siamese and arcface do not end it.
AfterReturn(s, ended) ==
    IF ended THEN [s EXCEPT !.mlflow_active = FALSE] ELSE s

\* Training returned. The visualisation block catches its own errors; for
\* siamese it ends with `continue`, which leaves the loop body before the
\* result is stored. Otherwise the result is stored and the id recorded.
OnReturn(s) ==
    LET u == CurUnit(s)
        t == [s EXCEPT !.invoked = @ \cup {u}, !.completed = @ \cup {u}]
    IN  IF u[3] = "siamese"
        THEN NextUnit(t)
        ELSE NextUnit([t EXCEPT !.architecture_results = @ \cup {u},
                                !.experiment_ids = Append(@, u)])

SweepInit == \E archs \in ArchLists : sw = NewSweep(archs)

\* all_architectures = [arch for arch in all_architectures if arch in models_to_rerun]
Filtered(archs, models) == SelectSeq(archs, LAMBDA arch : arch \in models)

\* The units of the matrix of archs in the given passes.
Matrix(archs, passes) ==
    {<<p, dataset_names[i], archs[j]>> :
        p \in passes, i \in DOMAIN dataset_names, j \in DOMAIN archs}

\* A rerun of an earlier sweep of the configured architectures (the earlier
\* sweep ran both passes, or lost the minimal pass) for some of them. The
\* mlflow package is optional (tracking.py:142-150): without it the tracker
\* is unavailable; with it the tracker is available unless initialize failed.
ResweepInit ==
    \E archs \in ArchLists, prior \in {{"enhanced"}, {"enhanced", "minimal"}},
       installed \in BOOLEAN :
        \E available \in Outcomes(installed, FALSE) :
        \E models \in (SUBSET ToSet(archs)) \ {{}, ToSet(archs)} :
            sw = [NewSweep(Filtered(archs, models)) EXCEPT
                     !.configured = archs,
                     !.models_to_rerun = models,
                     !.on_disk = Matrix(archs, prior),
                     !.mlflow_installed = installed,
                     !.mlflow_available = available]

SweepIdle == sw = [pc |-> "idle"]

\* The check before the sweep: on a low reading the function returns an error.
SweepStart ==
    /\ sw.pc = "start"
    /\ \E gb_free \in 0..MaxFreeGb :
           sw' = IF check_disk_space(gb_free, MinGbStart)
                 THEN [sw EXCEPT !.pc = "unit"]
                 ELSE [sw EXCEPT !.pc = "aborted"]
    /\ UNCHANGED <<es, returned, ckpt_dir, lastPrune, cfg, loaded, lastOp, rr, cv, ho, tr, config_dict, mon, out>>

\* The free-space check at the head of the loop body of one unit.
UnitGate ==
    /\ sw.pc = "unit"
    /\ \E gb_free \in 0..MaxFreeGb :
           LET min_gb == IF sw.pass = "enhanced" THEN MinGbEnhanced ELSE MinGbMinimal
               s == [sw EXCEPT !.handled = "none"]
           IN  sw' = IF check_disk_space(gb_free, min_gb)
                     THEN [s EXCEPT !.pc = "train"]
                     ELSE OnLowSpace(s)
    /\ UNCHANGED <<es, returned, ckpt_dir, lastPrune, cfg, loaded, lastOp, rr, cv, ho, tr, config_dict, mon, out>>

\* The rest of the loop body: the config is built, the training subsystem is
\* invoked and returns or raises.
UnitRun ==
    /\ sw.pc = "train"
    /\ \E raises \in BOOLEAN :
       \E reached \in Outcomes(raises /\ sw.mlflow_available /\ ~sw.mlflow_active, TRUE) :
           LET s == [StartRun(sw, reached) EXCEPT
                        !.config_files = ConfigSaved(@, CurUnit(sw), SweepEntry)]
           IN  \E end_raises \in Outcomes(raises /\ s.mlflow_active, FALSE) :
               \E left \in Outcomes(end_raises, FALSE) :
               \E ended \in Outcomes(~raises /\ s.mlflow_active, TRUE) :
                   sw' = IF raises
                         THEN CleanUpRun(OnRaise(s), end_raises, left)
                         ELSE AfterReturn(OnReturn(s), ended)
    /\ UNCHANGED <<es, returned, ckpt_dir, lastPrune, cfg, loaded, lastOp, rr, cv, ho, tr, config_dict, mon, out>>

\* The check between the passes: on a low reading the minimal pass is left
\* out as a whole.
PassGate ==
    /\ sw.pc = "pass_gate"
    /\ \E gb_free \in 0..MaxFreeGb :
           sw' = IF check_disk_space(gb_free, MinGbPass)
                 THEN [sw EXCEPT !.pc = "unit", !.pass = "minimal", !.d = 1, !.a = 1]
                 ELSE [sw EXCEPT !.pc = "analysis", !.pass_skipped = TRUE]
    /\ UNCHANGED <<es, returned, ckpt_dir, lastPrune, cfg, loaded, lastOp, rr, cv, ho, tr, config_dict, mon, out>>

(***************************************************************************)
(* Rerun driver: main() of rerun_experiment.py                             *)
(*                                                                         *)
(* A path is the sequence of its segments below experiment_dir. A segment  *)
(* (a file or directory name) is the sequence of the pieces it is written  *)
(* with, so that "siamese" is a piece and a prefix of                      *)
(* "siamese_results.json" = <<"siamese", "_results", ".json">>.            *)
(***************************************************************************)
MaxRuns == 2   \* main() is invoked at most MaxRuns times on the same tree

sEnhanced == <<"enhanced_preprocessing">>
sDataset1 == <<"dataset1">>
sCv       == <<"cross_validation">>
sHyperopt == <<"hyperparameter_optimization">>

pSiamese     == <<sEnhanced, sDataset1, <<"siamese">>>>
pSiameseIn   == <<sEnhanced, sDataset1, <<"siamese">>, <<"siamese", "_metrics", ".json">>>>
pSiameseRes  == <<sEnhanced, sDataset1, <<"siamese", "_results", ".json">>>>
pCnn         == <<sEnhanced, sDataset1, <<"cnn">>>>
pCnnRes      == <<sEnhanced, sDataset1, <<"cnn", "_results", ".json">>>>
cv_dir       == <<sCv>>
pCvCnn       == <<sCv, <<"cnn">>>>
cv_report_path == <<<<"cross_validation", "_report", ".json">>>>
hyperopt_dir == <<sHyperopt>>
pHyperoptCnn == <<sHyperopt, <<"cnn", "_dataset1">>>>

\* The parts a prior sweep may have left, each with the kind of its paths.
TreeParts ==
    {[p \in {pSiamese, pSiameseIn} |-> IF p = pSiamese THEN "dir" ELSE "file"],
     [p \in {pSiameseRes} |-> "file"],
     [p \in {pCnn, pCnnRes} |-> IF p = pCnn THEN "dir" ELSE "file"],
     [p \in {cv_dir, pCvCnn} |-> "dir"],
     [p \in {cv_report_path} |-> "file"],
     [p \in {hyperopt_dir, pHyperoptCnn} |-> "dir"]}

Parent(p) == SubSeq(p, 1, Len(p) - 1)
Last(p) == p[Len(p)]

RECURSIVE Ancestors(_)
Ancestors(p) == IF Len(p) <= 1 THEN {} ELSE {Parent(p)} \cup Ancestors(Parent(p))

\* The tree made of some parts and the directories above them: path -> kind.
TreeOf(parts) ==
    LET leaves == UNION {DOMAIN f : f \in parts}
        above  == UNION {Ancestors(p) : p \in leaves}
    IN  [p \in leaves \cup above |->
            IF p \in leaves
            THEN (CHOOSE f \in parts : p \in DOMAIN f)[p]
            ELSE "dir"]

\* The order in which one directory lists its entries (os.scandir gives an
\* arbitrary one; this is one of them).
SegOrder ==
    <<sEnhanced, sDataset1, <<"siamese">>, <<"siamese", "_metrics", ".json">>,
      <<"siamese", "_results", ".json">>, <<"cnn">>, <<"cnn", "_results", ".json">>,
      sCv, <<"cross_validation", "_report", ".json">>, sHyperopt,
      <<"cnn", "_dataset1">>>>

Rank(seg) == CHOOSE i \in DOMAIN SegOrder : SegOrder[i] = seg

IsUnder(p, d) == Len(p) > Len(d) /\ SubSeq(p, 1, Len(d)) = d

\* The recursive walk of glob visits a directory before what is below it.
DfsBefore(a, b) ==
    \/ IsUnder(b, a)
    \/ \E i \in 1..Min(Len(a), Len(b)) :
           /\ \A j \in 1..(i - 1) : a[j] = b[j]
           /\ a[i] # b[i]
           /\ Rank(a[i]) < Rank(b[i])

\* glob yields the matches directory by directory, in the order of the walk.
GlobBefore(p, q) ==
    IF Parent(p) = Parent(q)
    THEN Rank(Last(p)) < Rank(Last(q))
    ELSE DfsBefore(Parent(p), Parent(q))

RECURSIVE Listed(_)
Listed(S) ==
    IF S = {} THEN <<>>
    ELSE LET m == CHOOSE x \in S : \A y \in S \ {x} : GlobBefore(x, y)
         IN  <<m>> \o Listed(S \ {m})

Contains(seg, model) == \E i \in DOMAIN seg : seg[i] = model
EndsJson(seg) == seg[Len(seg)] = ".json"

\* glob(f"{experiment_dir}/**/*/siamese", recursive=True): the name is the
\* literal siamese, whatever model the loop is at.
GlobModelDirs(tree, model) ==
    {p \in DOMAIN tree : Len(p) >= 2 /\ Last(p) = <<"siamese">>}

\* glob(f"{experiment_dir}/**/*{model}*.json", recursive=True)
GlobResultFiles(tree, model) ==
    {p \in DOMAIN tree : Contains(Last(p), model) /\ EndsJson(Last(p))}

\* glob(f"{cv_dir}/**/{model}", recursive=True)
GlobCvModel(tree, model) ==
    {p \in DOMAIN tree : IsUnder(p, cv_dir) /\ Last(p) = <<model>>}

\* glob(f"{cv_dir}/**/*{model}*.json", recursive=True)
GlobCvResults(tree, model) ==
    {p \in DOMAIN tree : IsUnder(p, cv_dir) /\ Contains(Last(p), model) /\ EndsJson(Last(p))}

\* glob(f"{hyperopt_dir}/**/*{model}*", recursive=True)
GlobHyperopt(tree, model) ==
    {p \in DOMAIN tree : IsUnder(p, hyperopt_dir) /\ Contains(Last(p), model)}

SegStartsWith(x, y) == Len(y) <= Len(x) /\ SubSeq(x, 1, Len(y)) = y

\* str(p).startswith(str(d)): a comparison of the two path strings
StrStartsWith(p, d) ==
    /\ Len(d) <= Len(p)
    /\ \A i \in 1..(Len(d) - 1) : p[i] = d[i]
    /\ SegStartsWith(p[Len(d)], d[Len(d)])

\* any(str(p).startswith(str(dir_path)) for dir_path, _ in to_remove if dir_path.is_dir())
Covered(to_remove, p, tree) ==
    \E i \in DOMAIN to_remove :
        tree[to_remove[i]] = "dir" /\ StrStartsWith(p, to_remove[i])

\* The loops that append each match unless it is covered.
RECURSIVE AddUncovered(_, _, _)
AddUncovered(to_remove, found, tree) ==
    IF found = <<>> THEN to_remove
    ELSE AddUncovered(IF Covered(to_remove, Head(found), tree)
                      THEN to_remove
                      ELSE Append(to_remove, Head(found)),
                      Tail(found), tree)

\* for model in args.rerun_models: the model directories, all appended, then
\* the result files
RECURSIVE ModelPass(_, _, _)
ModelPass(to_remove, models, tree) ==
    IF models = <<>> THEN to_remove
    ELSE LET dirs == to_remove \o Listed(GlobModelDirs(tree, Head(models)))
         IN  ModelPass(AddUncovered(dirs, Listed(GlobResultFiles(tree, Head(models))), tree),
                       Tail(models), tree)

\* for model in args.rerun_models, below cv_dir
RECURSIVE CvPass(_, _, _)
CvPass(to_remove, models, tree) ==
    IF models = <<>> THEN to_remove
    ELSE LET dirs == AddUncovered(to_remove, Listed(GlobCvModel(tree, Head(models))), tree)
         IN  CvPass(AddUncovered(dirs, Listed(GlobCvResults(tree, Head(models))), tree),
                    Tail(models), tree)

\* for model in args.rerun_models, below hyperopt_dir
RECURSIVE HyperoptPass(_, _, _)
HyperoptPass(to_remove, models, tree) ==
    IF models = <<>> THEN to_remove
    ELSE HyperoptPass(AddUncovered(to_remove, Listed(GlobHyperopt(tree, Head(models))), tree),
                      Tail(models), tree)

\* The to_remove list main() builds for the tree and the arguments.
Plan(tree, args) ==
    LET r1 == ModelPass(<<>>, args.rerun_models, tree)
        r2 == IF ~args.rerun_cv THEN r1
              ELSE LET c == IF cv_dir \notin DOMAIN tree THEN r1
                            ELSE IF args.rerun_models # <<>>
                                 THEN CvPass(r1, args.rerun_models, tree)
                                 ELSE Append(r1, cv_dir)
                   IN  IF cv_report_path \in DOMAIN tree THEN Append(c, cv_report_path) ELSE c
    IN  IF ~args.rerun_hyperopt \/ hyperopt_dir \notin DOMAIN tree THEN r2
        ELSE IF args.rerun_models # <<>>
             THEN HyperoptPass(r2, args.rerun_models, tree)
             ELSE Append(r2, hyperopt_dir)

\* dir_path.unlink() for a file, shutil.rmtree(dir_path) for a directory
Removed(tree, p) ==
    IF tree[p] = "file"
    THEN [q \in DOMAIN tree \ {p} |-> tree[q]]
    ELSE [q \in {x \in DOMAIN tree : x # p /\ ~IsUnder(x, p)} |-> tree[q]]

\* What the user may type at a prompt, character by character.
Typed == {<<"y">>, <<" ", "Y", "e", "s">>, <<"n">>, <<>>}

\* input(...).strip().lower()
RECURSIVE Strip(_)
Strip(a) ==
    IF a = <<>> THEN a
    ELSE IF Head(a) = " " THEN Strip(Tail(a))
    ELSE IF a[Len(a)] = " " THEN Strip(SubSeq(a, 1, Len(a) - 1))
    ELSE a

Lower(a) == [i \in DOMAIN a |-> IF a[i] = "Y" THEN "y" ELSE a[i]]

\* A slip the checks must notice: everything but a "n..." counts as a yes.
StartsWithYOrEmpty(a) == ~(Len(a) > 0 /\ a[1] = "n")

\* confirm.startswith("y")
StartsWithY(a) == Len(a) > 0 /\ a[1] = "y"

NotAsked == <<"-">>

RerunArgs ==
    [rerun_models   : {<<"siamese">>, <<"cnn">>, <<"siamese", "cnn">>},
     rerun_cv       : BOOLEAN,
     rerun_hyperopt : BOOLEAN,
     auto_confirm   : BOOLEAN]

RerunInit ==
    \E parts \in SUBSET TreeParts, args \in RerunArgs :
        rr = [pc        |-> "plan",
              tree      |-> TreeOf(parts),
              args      |-> args,
              to_remove |-> <<>>,
              i         |-> 1,
              confirm   |-> NotAsked,
              should_continue |-> NotAsked,
              \* history: one record per invocation of main()
              runs      |-> <<>>]

RerunIdle == rr = [pc |-> "idle"]

\* main() builds to_remove and prints it.
RerunPlan ==
    /\ rr.pc = "plan"
    /\ LET found == Plan(rr.tree, rr.args)
       IN  rr' = [rr EXCEPT !.to_remove = found,
                            !.i = 1,
                            !.confirm = NotAsked,
                            !.should_continue = NotAsked,
                            !.pc = IF found = <<>> THEN "rerun" ELSE "confirm",
                            !.runs = Append(@, [tree |-> rr.tree, to_remove |-> found,
                                                outcome |-> "planned", failures |-> {}])]
    /\ UNCHANGED <<es, returned, ckpt_dir, lastPrune, cfg, loaded, lastOp, sw, cv, ho, tr, config_dict, mon, out>>

\* The confirmation: given by --auto-confirm, or asked of the user.
RerunConfirm ==
    /\ rr.pc = "confirm"
    /\ \E typed \in Typed :
           \* confirm = "y" under --auto-confirm, else what input() gives
           LET confirm == IF rr.args.auto_confirm THEN <<"y">> ELSE Lower(Strip(typed))
               n       == Len(rr.runs)
           IN  /\ rr.args.auto_confirm => typed = <<"y">>
               /\ rr' = IF StartsWithY(confirm)
                        THEN [rr EXCEPT !.pc = "remove",
                                        !.confirm = confirm]
                        ELSE [rr EXCEPT !.pc = "ask_continue",
                                        !.confirm = confirm,
                                        !.runs[n].outcome = "declined"]
    /\ UNCHANGED <<es, returned, ckpt_dir, lastPrune, cfg, loaded, lastOp, sw, cv, ho, tr, config_dict, mon, out>>

\* A slip the checks must notice: the removal is not inside a try, its error
\* ends main().
RerunRemoveAbort ==
    /\ rr.pc = "remove"
    /\ LET p    == rr.to_remove[rr.i]
           last == rr.i = Len(rr.to_remove)
           n    == Len(rr.runs)
       IN  \E raises \in BOOLEAN :
               /\ raises => p \in DOMAIN rr.tree
               /\ rr' = [rr EXCEPT
                           !.tree = IF p \in DOMAIN rr.tree /\ ~raises
                                    THEN Removed(rr.tree, p) ELSE @,
                           !.i = @ + 1,
                           !.pc = IF raises THEN "returned"
                                  ELSE IF last THEN "rerun" ELSE "remove",
                           !.runs[n].failures = IF raises THEN @ \cup {p} ELSE @,
                           !.runs[n].outcome = IF last /\ ~raises THEN "removed" ELSE @]
    /\ UNCHANGED <<es, returned, ckpt_dir, lastPrune, cfg, loaded, lastOp, sw, cv, ho, tr, config_dict, mon, out>>

\* One turn of the removal loop: the path is removed, or is already gone, or
\* its removal raises and the error is printed.
RerunRemove ==
    /\ rr.pc = "remove"
    /\ LET p    == rr.to_remove[rr.i]
           last == rr.i = Len(rr.to_remove)
           n    == Len(rr.runs)
       IN  \E raises \in BOOLEAN :
               /\ raises => p \in DOMAIN rr.tree
               /\ rr' = [rr EXCEPT
                           !.tree = IF p \in DOMAIN rr.tree /\ ~raises
                                    THEN Removed(rr.tree, p) ELSE @,
                           !.i = @ + 1,
                           !.pc = IF last THEN "rerun" ELSE "remove",
                           !.runs[n].failures = IF raises THEN @ \cup {p} ELSE @,
                           !.runs[n].outcome = IF last THEN "removed" ELSE @]
    /\ UNCHANGED <<es, returned, ckpt_dir, lastPrune, cfg, loaded, lastOp, sw, cv, ho, tr, config_dict, mon, out>>

\* After a declined deletion: "Continue with rerun anyway?"
RerunAskContinue ==
    /\ rr.pc = "ask_continue"
    /\ \E typed \in Typed :
           LET should_continue == Lower(Strip(typed))
           IN  rr' = [rr EXCEPT !.pc = IF StartsWithY(should_continue)
                                       THEN "rerun" ELSE "returned",
                                !.should_continue = should_continue]
    /\ UNCHANGED <<es, returned, ckpt_dir, lastPrune, cfg, loaded, lastOp, sw, cv, ho, tr, config_dict, mon, out>>

\* run_modified_experiment(...). What the sweep then writes into the tree is
\* not part of this specification: the tree is as the sweep finds it, which is
\* also how it stays when the sweep returns at its first free-space check.
RerunStart ==
    /\ rr.pc = "rerun"
    /\ rr' = [rr EXCEPT !.pc = "done"]
    /\ UNCHANGED <<es, returned, ckpt_dir, lastPrune, cfg, loaded, lastOp, sw, cv, ho, tr, config_dict, mon, out>>

\* main() is invoked again with the same arguments.
RerunAgain ==
    /\ rr.pc \in {"done", "returned"}
    /\ Len(rr.runs) < MaxRuns
    /\ rr' = [rr EXCEPT !.pc = "plan", !.to_remove = <<>>, !.i = 1,
                         !.confirm = NotAsked, !.should_continue = NotAsked]
    /\ UNCHANGED <<es, returned, ckpt_dir, lastPrune, cfg, loaded, lastOp, sw, cv, ho, tr, config_dict, mon, out>>


(***************************************************************************)
(* k-fold cross-validation: run_cross_validation_for_model and its call    *)
(* in run_comprehensive_face_recognition_experiment                        *)
(*                                                                         *)
(* A fold's result is the summary its training returned; of it the         *)
(* aggregation reads result["test_metrics"][0]. A mean is kept as the pair *)
(* of the sum and the number of values it was divided by, a standard       *)
(* deviation as its square, num / den = (n * sum(x^2) - sum(x)^2) / n^2.   *)
(***************************************************************************)
MaxFolds  == 3   \* n_folds is 2..MaxFolds
MaxMetric == 1   \* a metric value is 0..MaxMetric

MinGbCv == 2

CvModelTypes == {"cnn", "siamese"}

\* metrics = ["accuracy", "precision", "recall", "f1"]
metrics == <<"accuracy", "precision", "recall", "f1">>

\* The metric names a test_metrics entry may hold: those the training unit
\* records (its F1 is named f1_score), and those of a summary made elsewhere.
MetricSets == {{"accuracy", "precision", "recall", "f1_score"},
               {"accuracy", "precision", "recall", "f1"},
               {"accuracy"}}

\* The summaries a fold's training may return: one test_metrics entry.
FoldSummaries ==
    {[test_metrics |-> <<[m \in ms |-> v]>>] : ms \in MetricSets, v \in 0..MaxMetric}

RECURSIVE SumSeq(_)
SumSeq(q) == IF q = <<>> THEN 0 ELSE Head(q) + SumSeq(Tail(q))

RECURSIVE Select(_, _)
\* [x for x in q if x.test_metrics] for keep = the results that have an entry
Select(q, keep) ==
    IF q = <<>> THEN <<>>
    ELSE IF Head(q) \in keep THEN <<Head(q)>> \o Select(Tail(q), keep)
         ELSE Select(Tail(q), keep)

\* fold["test_metrics"][0].get(metric, 0)
GetMetric(fold, metric) ==
    IF metric \in DOMAIN fold.test_metrics[1] THEN fold.test_metrics[1][metric] ELSE 0

\* values = [fold["test_metrics"][0].get(metric, 0) for fold in fold_results
\*           if "test_metrics" in fold and fold["test_metrics"]]
MetricValues(fold_results, metric) ==
    LET with == Select(fold_results, {r \in ToSet(fold_results) : Len(r.test_metrics) > 0})
    IN  [i \in DOMAIN with |-> GetMetric(with[i], metric)]

\* sum(values) / len(values)
Mean(values) == [sum |-> SumSeq(values), n |-> Len(values)]

\* np.std(values), squared
StdSq(values) ==
    LET n  == Len(values)
        sq == [i \in DOMAIN values |-> values[i] * values[i]]
    IN  [num |-> n * SumSeq(sq) - SumSeq(values) * SumSeq(values), den |-> n * n]

\* The aggregate the function returns for a non-empty fold_results.
Aggregate(fold_results) ==
    LET reported == {metrics[i] : i \in {j \in DOMAIN metrics :
                                          MetricValues(fold_results, metrics[j]) # <<>>}}
    IN  [test_metrics |->
            <<[mean |-> [m \in reported |-> Mean(MetricValues(fold_results, m))],
               std  |-> [m \in reported |-> StdSq(MetricValues(fold_results, m))]]>>,
         cross_validation |-> [folds |-> fold_results]]

NoResult == [test_metrics |-> <<>>]

CvInit ==
    \E mt \in CvModelTypes, k \in 2..MaxFolds :
        cv = [pc           |-> "gate",
              model_type   |-> mt,
              n_folds      |-> k,
              fold         |-> 0,
              fold_results |-> <<>>,
              result       |-> [kind |-> "unset"],
              cv_failed    |-> FALSE,
              \* history
              last_check   |-> "none",  \* "run" when the latest step was the free-space check
              unchecked    |-> {},      \* folds trained with no check directly before
              raised       |-> {},      \* folds whose training raised
              returned     |-> [f \in {} |-> NoResult]]  \* fold -> summary returned

CvIdle == cv = [pc |-> "idle"]

\* The caller's free-space check before the k-fold run of one architecture
\* on one dataset; low space skips the run and records it in cv_failed.
CvGate ==
    /\ cv.pc = "gate"
    /\ \E gb_free \in 0..MaxFreeGb :
           cv' = IF check_disk_space(gb_free, MinGbCv)
                 THEN [cv EXCEPT !.pc = "fold", !.last_check = "run"]
                 ELSE [cv EXCEPT !.pc = "done", !.cv_failed = TRUE, !.result = [kind |-> "skipped"]]
    /\ UNCHANGED <<es, returned, ckpt_dir, lastPrune, cfg, loaded, lastOp, sw, rr, ho, tr, config_dict, mon, out>>

\* A slip the checks must notice: the fold's training is not inside the try,
\* its error ends the k-fold run.
CvFoldRaiseEnds ==
    /\ cv.pc = "fold"
    /\ LET f       == cv.fold + 1
           last    == f = cv.n_folds
           checked == cv.last_check = "run"
           base    == [cv EXCEPT !.fold = f,
                                 !.pc = IF last THEN "aggregate" ELSE "fold",
                                 !.last_check = "none",
                                 !.unchecked = IF checked THEN @ ELSE @ \cup {f}]
       IN  \/ cv' = [base EXCEPT !.raised = @ \cup {f}, !.pc = "raised"]
           \/ \E r \in FoldSummaries :
                  cv' = [base EXCEPT
                           !.returned = [g \in DOMAIN @ \cup {f} |-> IF g = f THEN r ELSE @[g]],
                           !.fold_results = IF cv.model_type = "siamese"
                                            THEN @ ELSE Append(@, r)]
    /\ UNCHANGED <<es, returned, ckpt_dir, lastPrune, cfg, loaded, lastOp, sw, rr, ho, tr, config_dict, mon, out>>

\* One turn of the fold loop: the fold's training raises (printed, continue),
\* or returns a summary; the summary of a siamese fold is left by the
\* continue of the visualization branch before it is appended.
CvFold ==
    /\ cv.pc = "fold"
    /\ LET f       == cv.fold + 1
           last    == f = cv.n_folds
           checked == cv.last_check = "run"
           base    == [cv EXCEPT !.fold = f,
                                 !.pc = IF last THEN "aggregate" ELSE "fold",
                                 !.last_check = "none",
                                 !.unchecked = IF checked THEN @ ELSE @ \cup {f}]
       IN  \/ cv' = [base EXCEPT !.raised = @ \cup {f}]
           \/ \E r \in FoldSummaries :
                  cv' = [base EXCEPT
                           !.returned = [g \in DOMAIN @ \cup {f} |-> IF g = f THEN r ELSE @[g]],
                           !.fold_results = IF cv.model_type = "siamese"
                                            THEN @ ELSE Append(@, r)]
    /\ UNCHANGED <<es, returned, ckpt_dir, lastPrune, cfg, loaded, lastOp, sw, rr, ho, tr, config_dict, mon, out>>

\* After the loop: None for an empty fold_results, else the aggregate; the
\* caller records a None in cv_failed.
CvAggregate ==
    /\ cv.pc = "aggregate"
    /\ cv' = IF cv.fold_results = <<>>
             THEN [cv EXCEPT !.pc = "done", !.result = [kind |-> "None"], !.cv_failed = TRUE]
             ELSE [cv EXCEPT !.pc = "done",
                             !.result = [kind |-> "aggregate",
                                         value |-> Aggregate(cv.fold_results)]]
    /\ UNCHANGED <<es, returned, ckpt_dir, lastPrune, cfg, loaded, lastOp, sw, rr, ho, tr, config_dict, mon, out>>

(***************************************************************************)
(* Hyperparameter search: HyperparameterExperiment._objective              *)
(***************************************************************************)
MaxTrials == 2   \* the trials of one search

\* The ValueError branches of ExperimentConfig.__init__: an unknown dataset,
\* architecture (when a string) or evaluation mode is raised, not replaced.
InitRaises(a) ==
    \/ a.dataset \notin DatasetValues
    \/ a.model_architecture.t = "str" /\ a.model_architecture.v[1] \notin ArchValues
    \/ a.evaluation_mode \notin EvalModeValues

\* What run_experiment may hand back to the objective.
TrialResults ==
    {[best_validation_metrics |-> [accuracy |-> v]] : v \in 0..MaxMetric}
      \cup {[test_metrics |-> <<[accuracy |-> v]>>] : v \in 0..MaxMetric}
      \cup {[test_metrics |-> <<>>]}

\* The score the objective extracts from the results.
ExtractScore(results) ==
    IF "best_validation_metrics" \in DOMAIN results
       /\ "accuracy" \in DOMAIN results.best_validation_metrics
    THEN results.best_validation_metrics.accuracy
    ELSE IF "test_metrics" \in DOMAIN results
            /\ results.test_metrics # <<>>
            /\ "accuracy" \in DOMAIN results.test_metrics[1]
         THEN results.test_metrics[1].accuracy
         ELSE 0

HoInit ==
    \E arch \in ArchValues \cup {"resnet"}, ds \in DatasetValues \cup {"dataset3"} :
        ho = [pc                 |-> "build",
              model_architecture |-> arch,
              dataset            |-> ds,
              \* history: one record per trial
              trials             |-> <<>>]

HoIdle == ho = [pc |-> "idle"]

\* The head of _objective: the sampled values and ExperimentConfig(...), made
\* before the try block; a ValueError of the constructor leaves the objective.
HoBuildConfig ==
    /\ ho.pc = "build"
    /\ Len(ho.trials) < MaxTrials
    /\ LET raises == InitRaises([dataset            |-> ho.dataset,
                                 model_architecture |-> PyStr(ho.model_architecture),
                                 evaluation_mode    |-> "standard"])
       IN  ho' = IF raises
                 THEN [ho EXCEPT !.pc = "aborted",
                                 !.trials = Append(@, [failed |-> "config", outcome |-> "raised",
                                                       score |-> 0])]
                 ELSE [ho EXCEPT !.pc = "run"]
    /\ UNCHANGED <<es, returned, ckpt_dir, lastPrune, cfg, loaded, lastOp, sw, rr, cv, tr, config_dict, mon, out>>

\* The try block: run_experiment raises (logged, 0.0 returned) or returns
\* results from which the score is taken.
HoRunTrial ==
    /\ ho.pc = "run"
    /\ \/ ho' = [ho EXCEPT !.pc = "build",
                           !.trials = Append(@, [failed |-> "run", outcome |-> "returned",
                                                 score |-> 0])]
       \/ \E results \in TrialResults :
              ho' = [ho EXCEPT !.pc = "build",
                               !.trials = Append(@, [failed |-> "no", outcome |-> "returned",
                                                     score |-> ExtractScore(results)])]
    /\ UNCHANGED <<es, returned, ckpt_dir, lastPrune, cfg, loaded, lastOp, sw, rr, cv, tr, config_dict, mon, out>>

(***************************************************************************)
(* One training unit and its checkpoint directory:                         *)
(* ExperimentManager._run_single_model_experiment (resume, epoch loop,     *)
(* test of the best model), ResultsManager.save_model_checkpoint and       *)
(* save_checkpoint.                                                         *)
(*                                                                         *)
(* The model state is the number of epochs it was trained for. A file of   *)
(* the directory is complete or partial: torch.save writes into the named  *)
(* file itself, so a process killed while writing leaves the part written. *)
(* The unit monitors the accuracy: early_stopping_metric 'accuracy' and    *)
(* early_stopping_mode 'max', as the sweep configures its units.           *)
(***************************************************************************)
MaxEpochs   == 2   \* config.epochs is 1..MaxEpochs
MaxRestarts == 2   \* the process is killed and started again up to MaxRestarts times

\* accuracy = 100 * correct / total: none, half or all of the validation
\* samples are predicted correctly
Accuracies == {0, 50, 100}

\* f"checkpoint_epoch_{epoch}.pth"
checkpoint_filename(epoch) == <<"checkpoint_epoch", epoch>>
best_model_path      == <<"best_model", 0>>
best_checkpoint_path == <<"best_checkpoint", 0>>

\* The state keys of the dict save_checkpoint writes for a unit with a
\* scheduler; best_model.pth is the bare model.state_dict().
CheckpointKeys == {"model_state_dict", "optimizer_state_dict", "scheduler_state_dict"}

NoFiles == [f \in {} |-> [mtime |-> 0, matches |-> FALSE, state |-> "complete",
                          epoch |-> 0, model |-> 0, accuracy |-> 0, keys |-> {}]]

\* A slip the checks must notice: each best is written under a name of its own.
BestWritesVersioned(save_best_checkpoint, epoch) ==
    <<<<"best_model", epoch>>>>
        \o (IF save_best_checkpoint THEN <<<<"best_checkpoint", epoch>>>> ELSE <<>>)

\* The files save_model_checkpoint writes for a best model, in order.
BestWrites(save_best_checkpoint, epoch) ==
    <<best_model_path>> \o (IF save_best_checkpoint THEN <<best_checkpoint_path>> ELSE <<>>)

\* The files one call of save_model_checkpoint writes, in order.
CheckpointWrites(epoch, is_best, save_best_checkpoint) ==
    <<checkpoint_filename(epoch)>>
        \o (IF is_best THEN BestWrites(save_best_checkpoint, epoch) ELSE <<>>)

\* prune_checkpoints(checkpoints_dir, keep, "checkpoint_epoch_*.pth"), every
\* removal succeeding
Pruned(dir, keep) ==
    LET order == CHOOSE o \in Listings(Matching(dir)) : IsNewestFirst(o, dir)
    IN  [f \in DOMAIN dir \ Beyond(order, keep) |-> dir[f]]

\* A slip the checks must notice: the unit starts again at the epoch of the
\* checkpoint instead of the one after it.
ResumeStateSameEpoch(dir, epochs, resumable_training) ==
    LET files  == {f \in DOMAIN dir : f[1] = "checkpoint_epoch"}
        latest == CHOOSE f \in files : \A g \in files : g[2] <= f[2]
    IN  IF ~resumable_training \/ files = {}
        THEN [outcome |-> "train", start_epoch |-> 1, model |-> 0]
        ELSE IF dir[latest].state = "partial"
             THEN [outcome |-> "load_error", start_epoch |-> 1, model |-> 0]
             ELSE IF ~({"model_state_dict", "optimizer_state_dict"} \subseteq dir[latest].keys)
             THEN [outcome |-> "key_error", start_epoch |-> 1, model |-> 0]
             ELSE IF dir[latest].epoch > epochs
                  THEN [outcome |-> "name_error", start_epoch |-> dir[latest].epoch,
                        model |-> dir[latest].model]
                  ELSE [outcome |-> "train", start_epoch |-> dir[latest].epoch,
                        model |-> dir[latest].model]

\* The start of the unit: fresh, or from the checkpoint_epoch file of the
\* highest epoch. torch.load of a partial file raises; checkpoint[...] of
\* the model or the optimizer state raises KeyError when the dict has no
\* such key, the scheduler state is read only when it is there; a start_epoch above
\* config.epochs leaves the loop variable unset and the statement after the
\* loop raises NameError.
ResumeState(dir, epochs, resumable_training) ==
    LET files  == {f \in DOMAIN dir : f[1] = "checkpoint_epoch"}
        latest == CHOOSE f \in files : \A g \in files : g[2] <= f[2]
    IN  IF ~resumable_training \/ files = {}
        THEN [outcome |-> "train", start_epoch |-> 1, model |-> 0]
        ELSE IF dir[latest].state = "partial"
             THEN [outcome |-> "load_error", start_epoch |-> 1, model |-> 0]
             ELSE IF ~({"model_state_dict", "optimizer_state_dict"} \subseteq dir[latest].keys)
             THEN [outcome |-> "key_error", start_epoch |-> 1, model |-> 0]
             ELSE IF dir[latest].epoch + 1 > epochs
                  THEN [outcome |-> "name_error", start_epoch |-> dir[latest].epoch + 1,
                        model |-> dir[latest].model]
                  ELSE [outcome |-> "train", start_epoch |-> dir[latest].epoch + 1,
                        model |-> dir[latest].model]

\* The checkpoint_epoch file of the highest epoch, as a restart finds it.
Highest(dir) ==
    LET files  == {f \in DOMAIN dir : f[1] = "checkpoint_epoch"}
        latest == CHOOSE f \in files : \A g \in files : g[2] <= f[2]
    IN  IF files = {}
        THEN [present |-> FALSE, epoch |-> 0, model |-> 0, state |-> "none", keys |-> {}]
        ELSE [present |-> TRUE, epoch |-> latest[2], model |-> dir[latest].model,
              state |-> dir[latest].state, keys |-> dir[latest].keys]

\* EarlyStopping(patience=1, min_delta=0, mode='max'), made anew by every
\* start of the unit
UnitEarlyStopping == NewEarlyStopping(1, 0, "max")

TrInit ==
    \E n \in 1..MaxEpochs, freq \in 1..3, keep \in {1, MaxEpochs},
       sbc \in BOOLEAN, res \in BOOLEAN, ues \in BOOLEAN :
        tr = [pc                      |-> "train",
              epochs                  |-> n,
              checkpoint_frequency    |-> freq,
              keep_last_n_checkpoints |-> keep,
              save_best_checkpoint    |-> sbc,
              resumable_training      |-> res,
              use_early_stopping      |-> ues,
              early_stopping          |-> UnitEarlyStopping,
              epoch                   |-> 1,
              model                   |-> 0,
              accuracy                |-> 0,
              best_val_accuracy       |-> 0,
              pending                 |-> <<>>,
              dir                     |-> NoFiles,
              \* history
              restarts                |-> 0,
              resumes                 |-> <<>>]

TrIdle == tr = [pc |-> "idle"]

\* A unit with early stopping and one epoch more than the other units, so
\* that the monitor can stop it before its last epoch.
StopInit ==
    \E n \in 1..(MaxEpochs + 1), freq \in 1..3, sbc \in BOOLEAN :
        tr = [pc                      |-> "train",
              epochs                  |-> n,
              checkpoint_frequency    |-> freq,
              keep_last_n_checkpoints |-> 1,
              save_best_checkpoint    |-> sbc,
              resumable_training      |-> TRUE,
              use_early_stopping      |-> TRUE,
              early_stopping          |-> UnitEarlyStopping,
              epoch                   |-> 1,
              model                   |-> 0,
              accuracy                |-> 0,
              best_val_accuracy       |-> 0,
              pending                 |-> <<>>,
              dir                     |-> NoFiles,
              restarts                |-> 0,
              resumes                 |-> <<>>]

\* A unit started on a directory that holds one checkpoint written before,
\* by this or an older version of the program: its dict has any of the state
\* keys.
RestoreInit ==
    \E n \in 1..MaxEpochs, e \in 1..MaxEpochs, freq \in 1..3, sbc \in BOOLEAN,
       ues \in BOOLEAN, ks \in SUBSET CheckpointKeys :
        tr = [pc                      |-> "down",
              epochs                  |-> n,
              checkpoint_frequency    |-> freq,
              keep_last_n_checkpoints |-> 1,
              save_best_checkpoint    |-> sbc,
              resumable_training      |-> TRUE,
              use_early_stopping      |-> ues,
              early_stopping          |-> UnitEarlyStopping,
              epoch                   |-> 1,
              model                   |-> 0,
              accuracy                |-> 0,
              best_val_accuracy       |-> 0,
              pending                 |-> <<>>,
              dir                     |-> [f \in {checkpoint_filename(e)} |->
                                              [mtime |-> 1, matches |-> TRUE,
                                               state |-> "complete", epoch |-> e,
                                               model |-> e, accuracy |-> 0,
                                               keys |-> ks]],
              restarts                |-> 0,
              resumes                 |-> <<>>]

\* A slip the checks must notice: the monitor is called but its flag is not
\* read, the loop runs to its last epoch.
AfterEpochNoBreak(t) ==
    LET called == IF t.use_early_stopping
                  THEN Call(t.early_stopping, t.accuracy).state
                  ELSE t.early_stopping
        ends   == t.epoch = t.epochs
    IN  [t EXCEPT !.pc = IF ends THEN "test" ELSE "train",
                  !.epoch = IF ends THEN @ ELSE @ + 1,
                  !.early_stopping = called,
                  !.pending = <<>>]

\* The end of an epoch after the save: the early-stopping monitor is called
\* with the accuracy and the loop breaks when it says so; else the next
\* epoch, or the test phase after the last one.
AfterEpoch(t) ==
    LET called == IF t.use_early_stopping
                  THEN Call(t.early_stopping, t.accuracy).state
                  ELSE t.early_stopping
        ends   == called.early_stop \/ t.epoch = t.epochs
    IN  [t EXCEPT !.pc = IF ends THEN "test" ELSE "train",
                  !.epoch = IF ends THEN @ ELSE @ + 1,
                  !.early_stopping = called,
                  !.pending = <<>>]

\* One epoch of the loop up to the decision to save.
TrEpoch ==
    /\ tr.pc = "train"
    /\ \E accuracy \in Accuracies :
           LET is_best == accuracy > tr.best_val_accuracy
               trained == [tr EXCEPT !.model = @ + 1,
                                     !.accuracy = accuracy,
                                     !.best_val_accuracy = IF is_best THEN accuracy ELSE @]
           IN  tr' = IF tr.epoch % tr.checkpoint_frequency = 0 \/ is_best
                     THEN [trained EXCEPT
                             !.pc = "save",
                             !.pending = CheckpointWrites(tr.epoch, is_best,
                                                          tr.save_best_checkpoint)]
                     ELSE AfterEpoch(trained)
    /\ UNCHANGED <<es, returned, ckpt_dir, lastPrune, cfg, loaded, lastOp, sw, rr, cv, ho, config_dict, mon, out>>

\* The directory after torch.save has written file f, wholly or in part. Of
\* the modification times only the order of the checkpoint_epoch files is
\* read (by the pruning), so an mtime is the file's position in that order.
Stored(dir, f, state, t) ==
    LET others  == DOMAIN dir \ {f}
        epochs  == {g \in others : dir[g].matches}
        rank(g) == Cardinality({h \in epochs : dir[h].mtime < dir[g].mtime}) + 1
        isEpoch == f[1] = "checkpoint_epoch"
    IN  [g \in others \cup {f} |->
            IF g = f
            THEN [mtime |-> IF isEpoch THEN Cardinality(epochs) + 1 ELSE 0,
                  matches |-> isEpoch, state |-> state, epoch |-> t.epoch,
                  model |-> t.model, accuracy |-> t.accuracy,
                  keys |-> IF f = best_model_path THEN {} ELSE CheckpointKeys]
            ELSE [dir[g] EXCEPT !.mtime = IF dir[g].matches THEN rank(g) ELSE 0]]

\* save_model_checkpoint, one torch.save at a time; after the last one the
\* pruning of the epoch files.
TrWrite ==
    /\ tr.pc = "save"
    /\ LET f       == Head(tr.pending)
           written == Stored(tr.dir, f, "complete", tr)
           prune   == /\ tr.epoch % tr.checkpoint_frequency = 0
                      /\ tr.keep_last_n_checkpoints > 0
           t1      == [tr EXCEPT !.pending = Tail(@)]
       IN  tr' = IF Len(tr.pending) > 1
                 THEN [t1 EXCEPT !.dir = written]
                 ELSE AfterEpoch([t1 EXCEPT
                        !.dir = IF prune THEN Pruned(written, tr.keep_last_n_checkpoints)
                                ELSE written])
    /\ UNCHANGED <<es, returned, ckpt_dir, lastPrune, cfg, loaded, lastOp, sw, rr, cv, ho, config_dict, mon, out>>

\* After the loop: model.load_state_dict(torch.load(best_model.pth)) and the
\* test; a missing or partial best model file raises.
TrTest ==
    /\ tr.pc = "test"
    /\ tr' = [tr EXCEPT !.pc = IF best_model_path \in DOMAIN tr.dir
                                  /\ tr.dir[best_model_path].state = "complete"
                               THEN "finished" ELSE "failed"]
    /\ UNCHANGED <<es, returned, ckpt_dir, lastPrune, cfg, loaded, lastOp, sw, rr, cv, ho, config_dict, mon, out>>

\* The process is killed. While a file is being written, the kill leaves it
\* partial (torn) or comes before its first byte.
TrKill ==
    /\ tr.pc \in {"train", "save", "test"}
    /\ tr.restarts < MaxRestarts
    /\ \E torn \in BOOLEAN :
           /\ torn => tr.pc = "save"
           /\ tr' = [tr EXCEPT
                       !.pc = "down",
                       !.pending = <<>>,
                       !.dir = IF torn THEN Stored(@, Head(tr.pending), "partial", tr)
                               ELSE @]
    /\ UNCHANGED <<es, returned, ckpt_dir, lastPrune, cfg, loaded, lastOp, sw, rr, cv, ho, config_dict, mon, out>>

\* The directory without its partial files: what has been saved.
Saved(dir) == [f \in {g \in DOMAIN dir : dir[g].state = "complete"} |-> dir[f]]

\* The unit is started again on the directory as the kill left it.
TrRestart ==
    /\ tr.pc = "down"
    /\ LET got == ResumeState(tr.dir, tr.epochs, tr.resumable_training)
       IN  tr' = [tr EXCEPT
                    !.pc = IF got.outcome = "train" THEN "train" ELSE "failed",
                    !.epoch = got.start_epoch,
                    !.model = got.model,
                    !.best_val_accuracy = 0,
                    !.accuracy = 0,
                    !.early_stopping = UnitEarlyStopping,
                    !.restarts = @ + 1,
                    \* history: what the latest start found and restored
                    !.resumes = <<[got |-> got,
                                           highest |-> Highest(tr.dir),
                                           from_saved |-> ResumeState(Saved(tr.dir), tr.epochs,
                                                                     tr.resumable_training)]>>]
    /\ UNCHANGED <<es, returned, ckpt_dir, lastPrune, cfg, loaded, lastOp, sw, rr, cv, ho, config_dict, mon, out>>

(***************************************************************************)
(* Loading a config from a saved dict: ExperimentConfig.load / from_dict   *)
(* on a document whose enum-valued fields may hold values no Enum has.     *)
(***************************************************************************)
EnumFields == {"dataset", "model_architecture", "lr_scheduler_type",
               "evaluation_mode", "tracker_type"}

\* The values each Enum knows.
KnownValues(field) ==
    CASE field = "dataset"            -> DatasetValues
      [] field = "model_architecture" -> ArchValues
      [] field = "lr_scheduler_type"  -> SchedValues
      [] field = "evaluation_mode"    -> EvalModeValues
      [] field = "tracker_type"       -> TrackerValues

\* The defaults of from_dict's config_dict.get(field, default).
DefaultValue(field) ==
    CASE field = "dataset"            -> "both"
      [] field = "model_architecture" -> "cnn"
      [] field = "lr_scheduler_type"  -> "none"
      [] field = "evaluation_mode"    -> "standard"
      [] field = "tracker_type"       -> "none"

\* The string a document holds in an enum field.
FieldValue(d, field) ==
    IF field = "model_architecture" THEN d[field].v[1] ELSE d[field]

\* The document with the string of an enum field replaced.
SetValue(d, field, x) ==
    With(d, field, IF field = "model_architecture" THEN PyStr(x) ELSE x)

\* The fields for which __init__ logs "Invalid ... Using NONE."
Warned(d) ==
    {f \in {"lr_scheduler_type", "tracker_type"} : FieldValue(d, f) \notin KnownValues(f)}

\* ExperimentConfig.load(path) on the document: from_dict calls __init__,
\* whose ValueError for an unknown dataset, architecture or evaluation mode
\* nothing catches.
LoadResult(d) ==
    IF InitRaises(d)
    THEN [kind |-> "ValueError", config |-> "none", warnings |-> {}]
    ELSE [kind |-> "config", config |-> from_dict(d), warnings |-> Warned(d)]

\* A document as config.save wrote it.
DocInit ==
    config_dict =
        [pc |-> "dict",
         d  |-> to_dict(NewConfig(
                   [experiment_id       |-> "exp",
                    experiment_name     |-> "Unnamed Experiment",
                    now                 |-> 0,
                    dataset             |-> "both",
                    model_architecture  |-> PyStr("cnn"),
                    preprocessing_config |-> NoPreprocessing,
                    epochs              |-> 30,
                    results_dir         |-> "out/exp",
                    config_version      |-> <<1, 0, 0>>,
                    lr_scheduler_type   |-> "none",
                    lr_scheduler_params |-> EmptyDict,
                    resumable_training  |-> TRUE,
                    evaluation_mode     |-> "standard",
                    tracker_type        |-> "none",
                    tracking_tags       |-> EmptyDict])),
         loaded |-> [kind |-> "none", config |-> "none", warnings |-> {}]]

DocIdle == config_dict = [pc |-> "idle"]

\* The file is written by another version or edited by hand: an enum field
\* holds another known value or a value no Enum has.
DocSetField ==
    /\ config_dict.pc = "dict"
    /\ \E f \in EnumFields : \E x \in KnownValues(f) \cup {"unknown"} :
           /\ FieldValue(config_dict.d, f) # x
           /\ config_dict' = [config_dict EXCEPT !.d = SetValue(@, f, x)]
    /\ UNCHANGED <<es, returned, ckpt_dir, lastPrune, cfg, loaded, lastOp, sw, rr, cv, ho, tr, mon, out>>

\* ExperimentConfig.load(path)
DocLoad ==
    /\ config_dict.pc = "dict"
    /\ config_dict' = [config_dict EXCEPT !.pc = "done",
                                          !.loaded = LoadResult(config_dict.d)]
    /\ UNCHANGED <<es, returned, ckpt_dir, lastPrune, cfg, loaded, lastOp, sw, rr, cv, ho, tr, mon, out>>

(***************************************************************************)
(* Resource sampling: ResourceMonitor and its two uses in                  *)
(* ExperimentManager._run_single_model_experiment                          *)
(*                                                                         *)
(* The units of a sweep run one after the other in one process; each one   *)
(* creates a monitor for its training and one for its test. A monitor is   *)
(* its attributes and the state of its daemon thread.                      *)
(***************************************************************************)
MaxUnits    == 2   \* units run one after the other in the process
MaxReadings == 1   \* the readings of a monitor are counted up to MaxReadings

\* ResourceMonitor(...) then start(): monitoring is set and the thread started.
start(unit, phase) ==
    [unit |-> unit, phase |-> phase, monitoring |-> TRUE, alive |-> TRUE,
     readings |-> 0, joined |-> "no"]

\* stop(): monitoring = False, then monitor_thread.join(timeout=1.0), which
\* returns when the thread has left its loop (in_time) or after the timeout
\* with the thread still in its time.sleep(log_interval).
stop(m, in_time) ==
    [m EXCEPT !.monitoring = FALSE,
              !.alive = @ /\ ~in_time,
              !.joined = IF m.alive /\ ~in_time THEN "timeout" ELSE "exited"]

\* The unit is over: the caller's handler goes on with the next one.
EndUnit(s, outcome) ==
    LET t == [s EXCEPT !.finished = Append(@, outcome)]
    IN  IF s.unit < MaxUnits
        THEN [t EXCEPT !.unit = @ + 1, !.pc = "unit"]
        ELSE [t EXCEPT !.pc = "done"]

MonInit == mon = [pc |-> "unit", unit |-> 1, monitors |-> <<>>, finished |-> <<>>]

MonIdle == mon = [pc |-> "idle"]

\* resource_monitor = ResourceMonitor(log_interval=5); resource_monitor.start()
StartTraining ==
    /\ mon.pc = "unit"
    /\ mon' = [mon EXCEPT !.monitors = Append(@, start(mon.unit, "training")),
                          !.pc = "training"]
    /\ UNCHANGED <<es, returned, ckpt_dir, lastPrune, cfg, loaded, lastOp, sw, rr, cv, ho, tr, config_dict, out>>

\* An epoch raises: the except clause of the unit logs and re-raises.
TrainingRaises ==
    /\ mon.pc = "training"
    /\ mon' = EndUnit(mon, "raised")
    /\ UNCHANGED <<es, returned, ckpt_dir, lastPrune, cfg, loaded, lastOp, sw, rr, cv, ho, tr, config_dict, out>>

\* The training loop ends: training_resource_data = resource_monitor.stop()
TrainingEnds ==
    /\ mon.pc = "training"
    /\ \E in_time \in BOOLEAN :
           mon' = [mon EXCEPT !.monitors[Len(mon.monitors)] = stop(@, in_time),
                              !.pc = "trained"]
    /\ UNCHANGED <<es, returned, ckpt_dir, lastPrune, cfg, loaded, lastOp, sw, rr, cv, ho, tr, config_dict, out>>

\* The best model is loaded (which may raise) and the monitor of the test is
\* started: inference_monitor = ResourceMonitor(log_interval=1); start()
StartInference ==
    /\ mon.pc = "trained"
    /\ \E raises \in BOOLEAN :
           mon' = IF raises
                  THEN EndUnit(mon, "raised")
                  ELSE [mon EXCEPT !.monitors = Append(@, start(mon.unit, "inference")),
                                   !.pc = "testing"]
    /\ UNCHANGED <<es, returned, ckpt_dir, lastPrune, cfg, loaded, lastOp, sw, rr, cv, ho, tr, config_dict, out>>

\* A test batch raises.
InferenceRaises ==
    /\ mon.pc = "testing"
    /\ mon' = EndUnit(mon, "raised")
    /\ UNCHANGED <<es, returned, ckpt_dir, lastPrune, cfg, loaded, lastOp, sw, rr, cv, ho, tr, config_dict, out>>

\* The test ends: inference_resource_data = inference_monitor.stop(); the
\* unit returns its summary.
InferenceEnds ==
    /\ mon.pc = "testing"
    /\ \E in_time \in BOOLEAN :
           mon' = EndUnit([mon EXCEPT !.monitors[Len(mon.monitors)] = stop(@, in_time)],
                          "returned")
    /\ UNCHANGED <<es, returned, ckpt_dir, lastPrune, cfg, loaded, lastOp, sw, rr, cv, ho, tr, config_dict, out>>

\* One turn of the loop of _monitor with monitoring set: a reading is
\* appended and the thread sleeps log_interval.
Sample ==
    /\ mon.pc # "idle"
    /\ \E i \in DOMAIN mon.monitors :
           /\ mon.monitors[i].alive /\ mon.monitors[i].monitoring
           /\ mon.monitors[i].readings < MaxReadings
           /\ mon' = [mon EXCEPT !.monitors[i].readings = @ + 1]
    /\ UNCHANGED <<es, returned, ckpt_dir, lastPrune, cfg, loaded, lastOp, sw, rr, cv, ho, tr, config_dict, out>>

\* The thread wakes up, finds monitoring unset and leaves _monitor.
ThreadExits ==
    /\ mon.pc # "idle"
    /\ \E i \in DOMAIN mon.monitors :
           /\ mon.monitors[i].alive /\ ~mon.monitors[i].monitoring
           /\ mon' = [mon EXCEPT !.monitors[i].alive = FALSE]
    /\ UNCHANGED <<es, returned, ckpt_dir, lastPrune, cfg, loaded, lastOp, sw, rr, cv, ho, tr, config_dict, out>>

(***************************************************************************)
(* The start of a sweep on the outputs directory: cleanup_old_experiments  *)
(* and the making of the sweep's own output directory                      *)
(* (run_comprehensive_face_recognition_experiment).                        *)
(*                                                                         *)
(* An entry of OUT_DIR is a directory or a file, its name starts with      *)
(* 'comprehensive_experiment_', with 'experiment_' or with neither, and    *)
(* entry n was modified at time n.                                         *)
(***************************************************************************)
MaxEntries == 4   \* OUT_DIR holds up to MaxEntries entries at the start

\* cleanup_old_experiments(keep_newest=2)
KeepNewest == 2

Prefixes == {"comprehensive_experiment_", "experiment_", "other"}

\* [d for d in OUT_DIR.iterdir() if d.is_dir() and d.name.startswith("experiment_")
\*  or d.name.startswith("comprehensive_experiment_")]: `and` binds before `or`
ExpDirs(dir) ==
    {d \in DOMAIN dir : \/ dir[d].is_dir /\ dir[d].prefix = "experiment_"
                        \/ dir[d].prefix = "comprehensive_experiment_"}

OutInit ==
    \E present \in SUBSET (1..MaxEntries), rerun \in BOOLEAN :
    \E kinds \in [present -> [is_dir : BOOLEAN, prefix : Prefixes]] :
        LET entries == [n \in present |-> [mtime |-> n, is_dir |-> kinds[n].is_dir,
                                           prefix |-> kinds[n].prefix]]
        IN  out = [pc                  |-> "start",
                   rerun_experiment_id |-> rerun,   \* whether one is given
                   dir                 |-> entries,
                   exp_dirs            |-> <<>>,
                   i                   |-> 0,
                   \* history
                   dir0                |-> entries, \* OUT_DIR as the sweep found it
                   removed             |-> <<>>,    \* the entries removed, in order
                   failed              |-> {}]      \* the entries whose removal raised

OutIdle == out = [pc |-> "idle"]

\* if not rerun_experiment_id: cleanup_old_experiments(keep_newest=2), up to
\* the removal loop: the listing, sorted newest first; nothing is removed
\* when it has no more than keep_newest entries.
CleanupStart ==
    /\ out.pc = "start"
    /\ IF out.rerun_experiment_id
       THEN out' = [out EXCEPT !.pc = "mkdir"]
       ELSE \E order \in Listings(ExpDirs(out.dir)) :
                /\ IsNewestFirst(order, out.dir)
                /\ out' = [out EXCEPT
                             !.exp_dirs = order,
                             !.i = KeepNewest + 1,
                             !.pc = IF Len(order) > KeepNewest THEN "remove" ELSE "mkdir"]
    /\ UNCHANGED <<es, returned, ckpt_dir, lastPrune, cfg, loaded, lastOp, sw, rr, cv, ho, tr, config_dict, mon>>

\* One turn of `for old_dir in exp_dirs[keep_newest:]`: shutil.rmtree removes
\* the directory, or raises (always on a file) and the error is printed.
CleanupRemove ==
    /\ out.pc = "remove"
    /\ LET old_dir == out.exp_dirs[out.i]
           last    == out.i = Len(out.exp_dirs)
       IN  \E raises \in BOOLEAN :
               /\ ~out.dir[old_dir].is_dir => raises
               /\ out' = [out EXCEPT
                            !.dir = IF raises THEN @
                                    ELSE [d \in DOMAIN out.dir \ {old_dir} |-> out.dir[d]],
                            !.removed = IF raises THEN @ ELSE Append(@, old_dir),
                            !.failed = IF raises THEN @ \cup {old_dir} ELSE @,
                            !.i = @ + 1,
                            !.pc = IF last THEN "mkdir" ELSE "remove"]
    /\ UNCHANGED <<es, returned, ckpt_dir, lastPrune, cfg, loaded, lastOp, sw, rr, cv, ho, tr, config_dict, mon>>

\* main_output_dir = OUT_DIR / comprehensive_exp_id: a rerun works in the
\* directory of the sweep it reruns, a new sweep makes its own (entry 0).
MakeOutputDir ==
    /\ out.pc = "mkdir"
    /\ out' = [out EXCEPT
                 !.pc = "done",
                 !.dir = IF out.rerun_experiment_id THEN @
                         ELSE [d \in DOMAIN out.dir \cup {0} |->
                                 IF d = 0 THEN [mtime |-> MaxEntries + 1, is_dir |-> TRUE,
                                                prefix |-> "comprehensive_experiment_"]
                                 ELSE out.dir[d]]]
    /\ UNCHANGED <<es, returned, ckpt_dir, lastPrune, cfg, loaded, lastOp, sw, rr, cv, ho, tr, config_dict, mon>>

\* The remaining subsystems, not started.
RestIdle == CvIdle /\ HoIdle /\ TrIdle /\ DocIdle /\ MonIdle /\ OutIdle
FirstIdle == ESIdle /\ PruneInit /\ CfgIdle /\ SweepIdle /\ RerunIdle /\ MonIdle /\ OutIdle

(***************************************************************************)
(* Specifications                                                          *)
(***************************************************************************)
InitES == ESInit /\ PruneInit /\ CfgIdle /\ SweepIdle /\ RerunIdle /\ RestIdle
NextES == Observe
SpecES == InitES /\ [][NextES]_vars

InitPrune == ESIdle /\ PruneInit /\ CfgIdle /\ SweepIdle /\ RerunIdle /\ RestIdle
NextPrune == WriteFile \/ PruneCheckpoints
SpecPrune == InitPrune /\ [][NextPrune]_vars

InitCfg == ESIdle /\ PruneInit /\ CfgInit /\ SweepIdle /\ RerunIdle /\ RestIdle
NextCfg == IncrementVersion \/ AddToHistory \/ SaveLoadJson \/ SaveLoadYaml
SpecCfg == InitCfg /\ [][NextCfg]_vars

InitSweep == ESIdle /\ PruneInit /\ CfgIdle /\ SweepInit /\ RerunIdle /\ RestIdle
NextSweep == SweepStart \/ UnitGate \/ UnitRun \/ PassGate
SpecSweep == InitSweep /\ [][NextSweep]_vars

InitResweep == ESIdle /\ PruneInit /\ CfgIdle /\ ResweepInit /\ RerunIdle /\ RestIdle
NextResweep == SweepStart \/ UnitGate \/ UnitRun \/ PassGate
SpecResweep == InitResweep /\ [][NextResweep]_vars

InitRerun == ESIdle /\ PruneInit /\ CfgIdle /\ SweepIdle /\ RerunInit /\ RestIdle
NextRerun ==
    RerunPlan \/ RerunConfirm \/ RerunRemove \/ RerunAskContinue \/ RerunStart \/ RerunAgain
SpecRerun == InitRerun /\ [][NextRerun]_vars

InitCV == FirstIdle /\ CvInit /\ HoIdle /\ TrIdle /\ DocIdle
NextCV == CvGate \/ CvFold \/ CvAggregate
SpecCV == InitCV /\ [][NextCV]_vars

InitHo == FirstIdle /\ CvIdle /\ HoInit /\ TrIdle /\ DocIdle
NextHo == HoBuildConfig \/ HoRunTrial
SpecHo == InitHo /\ [][NextHo]_vars

InitTr == FirstIdle /\ CvIdle /\ HoIdle /\ TrInit /\ DocIdle
NextTr == TrEpoch \/ TrWrite \/ TrTest \/ TrKill \/ TrRestart
SpecTr == InitTr /\ [][NextTr]_vars

InitRestore == FirstIdle /\ CvIdle /\ HoIdle /\ RestoreInit /\ DocIdle
NextRestore == TrRestart \/ TrEpoch \/ TrWrite \/ TrTest
SpecRestore == InitRestore /\ [][NextRestore]_vars

InitMon == ESIdle /\ PruneInit /\ CfgIdle /\ SweepIdle /\ RerunIdle /\ CvIdle /\ HoIdle /\ TrIdle /\ DocIdle /\ MonInit /\ OutIdle

InitCleanup == ESIdle /\ PruneInit /\ CfgIdle /\ SweepIdle /\ RerunIdle /\ CvIdle /\ HoIdle /\ TrIdle /\ DocIdle /\ MonIdle /\ OutInit
NextCleanup == CleanupStart \/ CleanupRemove \/ MakeOutputDir
SpecCleanup == InitCleanup /\ [][NextCleanup]_vars
NextMon ==
    \/ StartTraining \/ TrainingRaises \/ TrainingEnds \/ StartInference
    \/ InferenceRaises \/ InferenceEnds \/ Sample \/ ThreadExits
SpecMon == InitMon /\ [][NextMon]_vars

InitStop == FirstIdle /\ CvIdle /\ HoIdle /\ StopInit /\ DocIdle
NextStop == TrEpoch \/ TrWrite \/ TrTest
SpecStop == InitStop /\ [][NextStop]_vars

InitDoc == FirstIdle /\ CvIdle /\ HoIdle /\ TrIdle /\ DocInit
NextDoc == DocSetField \/ DocLoad
SpecDoc == InitDoc /\ [][NextDoc]_vars

(***************************************************************************)
(* Claims                                                                  *)
(***************************************************************************)

\* The returned values contain p consecutive FALSE entries.
HasRun(rets, p) ==
    \E i \in 1..(Len(rets) - p + 1) : \A j \in i..(i + p - 1) : rets[j] = FALSE

\* C1: for every patience >= 1, min_delta and mode and every score sequence,
\* early_stop is true after an observation if and only if the observations so
\* far contain `patience` consecutive non-improving ones (calls that returned
\* false).
C1_EarlyStopIffPatienceRun == es.early_stop <=> HasRun(returned, es.patience)

\* C1 witness: the monitor has stopped after an improvement was followed by a
\* run of non-improving scores, with patience above one.
C1_Witness ==
    /\ es.early_stop
    /\ es.patience >= 2
    /\ \E i \in DOMAIN returned : returned[i] /\ i >= 2 /\ ~returned[i - 1]

\* C2: the length of trace equals the number of calls made on the instance,
\* whatever each call returned.
C2_TraceLengthIsCallCount == Len(es.trace) = Len(returned)

\* C2 witness: both improving and non-improving calls have been made.
C2_Witness ==
    /\ Len(returned) >= 3
    /\ \E i, j \in DOMAIN returned : returned[i] /\ ~returned[j]

\* C3: after prune_checkpoints(dir, keep=K, pattern) on a directory holding N
\* matching files, when every removal succeeded, exactly min(K, N) matching
\* files are left, and every file left is at least as recently modified as
\* every file removed.
C3_PruneKeepsNewest ==
    (lastPrune.called /\ lastPrune.failed = {}) =>
        LET before == Matching(lastPrune.before)
            after  == Matching(ckpt_dir)
        IN  /\ Cardinality(after) = Min(lastPrune.keep, Cardinality(before))
            /\ after \subseteq before
            /\ \A k \in after, r \in before \ after :
                   lastPrune.before[k].mtime >= lastPrune.before[r].mtime

\* C3 witness: a prune with 0 < K < N removed files older than the ones kept.
C3_Witness ==
    /\ lastPrune.called
    /\ lastPrune.failed = {}
    /\ lastPrune.keep > 0
    /\ Cardinality(Matching(lastPrune.before)) > lastPrune.keep
    /\ \E k \in Matching(ckpt_dir), r \in Matching(lastPrune.before) \ Matching(ckpt_dir) :
           lastPrune.before[k].mtime > lastPrune.before[r].mtime

\* C4: deserializing the serialized form of a config yields a config whose
\* every field equals the original's, through JSON and through YAML.
C4_RoundTripFieldEqual ==
    (lastOp.op \in {"json", "yaml"}) => (loaded.ok /\ loaded.config = cfg)

\* C5: increment_version(level) adds 1 to the requested segment and sets every
\* lower segment to zero.
C5_BumpResetsLowerSegments ==
    [][(lastOp'.op = "increment_version") =>
        LET v == cfg.config_version
            w == cfg'.config_version
        IN  /\ lastOp'.level = "major" => w = <<v[1] + 1, 0, 0>>
            /\ lastOp'.level = "minor" => w = <<v[1], v[2] + 1, 0>>
            /\ lastOp'.level = "patch" => w = <<v[1], v[2], v[3] + 1>>]_vars

\* C5 witness: a minor bump has reset a non-zero patch segment.
C5_Witness ==
    /\ lastOp.op = "increment_version" /\ lastOp.level = "minor"
    /\ cfg.config_version[3] = 0
    /\ cfg.config_history[Len(cfg.config_history)].config["config_version"][3] > 0

\* C6: after a version bump the last entry of config_history is a snapshot of
\* the configuration as it was before the bump (pre-bump version included, no
\* history field of its own), and the earlier entries are unchanged.
C6_BumpSnapshotsPreState ==
    [][(lastOp'.op = "increment_version") =>
        LET h    == cfg.config_history
            g    == cfg'.config_history
            snap == g[Len(g)].config
            pre  == to_dict(cfg)
        IN  /\ Len(g) = Len(h) + 1
            /\ SubSeq(g, 1, Len(h)) = h
            /\ "config_history" \notin DOMAIN snap
            /\ DOMAIN snap = DOMAIN pre \ {"config_history"}
            /\ snap["config_version"] = cfg.config_version
            /\ \A k \in DOMAIN snap : snap[k] = pre[k]]_vars

\* C6 witness: a bump was made on a config that already had history.
C6_Witness ==
    /\ lastOp.op = "increment_version"
    /\ Len(cfg.config_history) >= 2

\* C7: no entry of config_history equals the config's current state.
C7_HistoryNeverHoldsCurrent ==
    \A i \in DOMAIN cfg.config_history :
        cfg.config_history[i].config # Without(to_dict(cfg), "config_history")

C9_LowSpaceSkipsUnit ==
    sw.pc # "idle" =>
        \A u \in sw.skipped :
            /\ u \in ToSet(sw.failed_architectures)
            /\ u \notin sw.invoked
            /\ u \notin sw.architecture_results

\* C9 witness: a unit was skipped for lack of space and a later unit trained.
C9_Witness ==
    /\ sw.pc = "analysis"
    /\ \E u \in sw.skipped, w \in sw.invoked : u[1] = "enhanced" /\ w[1] = "minimal"

\* C10: rerun planning is idempotent: planned again on an untouched tree with
\* the same targets the plan is the same set of paths, and planned again after
\* the deletions of the first plan were executed (each one succeeding) the
\* plan is empty.
C10_RerunPlanIdempotent ==
    rr.pc # "idle" =>
        \A i \in 1..(Len(rr.runs) - 1) :
            /\ rr.runs[i + 1].tree = rr.runs[i].tree =>
                   ToSet(rr.runs[i + 1].to_remove) = ToSet(rr.runs[i].to_remove)
            /\ (rr.runs[i].outcome = "removed" /\ rr.runs[i].failures = {}) =>
                   rr.runs[i + 1].to_remove = <<>>

\* C11: in the list of paths the rerun planner selects for deletion, no path
\* is below another selected path and no path is selected twice, whatever the
\* requested architectures and the CV and hyperopt flags.
C11_PlanHasNoOverlap ==
    rr.pc \in {"confirm", "remove", "rerun"} =>
        \A i, j \in DOMAIN rr.to_remove :
            i # j => /\ rr.to_remove[i] # rr.to_remove[j]
                     /\ ~IsUnder(rr.to_remove[i], rr.to_remove[j])

\* The folds whose training returned, in order.
Succeeded == {f \in 1..cv.n_folds : f \in DOMAIN cv.returned}

C13_FailedFoldsInResult ==
    (cv.pc = "done" /\ cv.result.kind # "skipped" /\ cv.raised # {}) =>
        /\ cv.result.kind = "aggregate"
        /\ \E key \in DOMAIN cv.result.value :
               /\ key \notin {"test_metrics", "cross_validation"}
               /\ cv.raised \subseteq ToSet(cv.result.value[key])

C20_CheckBeforeEveryFold == cv.pc # "idle" => cv.unchecked = {}

\* C14: no exception leaves a trial of the hyperparameter search: a failure
\* while building the trial's config or while running its training unit makes
\* the trial return the score 0.
C14_TrialNeverRaises ==
    ho.pc # "idle" =>
        \A i \in DOMAIN ho.trials :
            /\ ho.trials[i].outcome = "returned"
            /\ ho.trials[i].failed # "no" => ho.trials[i].score = 0

\* C15: a training unit that is killed and started again any number of times
\* continues from the same point as a unit interrupted once at the last saved
\* checkpoint: what each start restores is what it would restore from the
\* saved checkpoints alone.
C15_ResumeFromLastSaved ==
    (tr.pc # "idle" /\ tr.resumable_training) =>
        \A i \in DOMAIN tr.resumes : tr.resumes[i].got = tr.resumes[i].from_saved

\* C16: the checkpoint directory never holds a partially written file under a
\* name a later load reads: after an interrupted save a name holds the complete
\* new content or what it held before.
C16_NoPartialCheckpoint ==
    tr.pc # "idle" => \A f \in DOMAIN tr.dir : tr.dir[f].state = "complete"

\* The files of the directory tagged best.
BestTagged == {f \in DOMAIN tr.dir : f[1] \in {"best_model", "best_checkpoint"}}

\* C17 as stated: a unit has at most one file tagged best at any time.
C17_AtMostOneBestFile == tr.pc # "idle" => Cardinality(BestTagged) <= 1

\* C17 amended: a unit has at most one best-model file and at most one
\* best-checkpoint file, each under its fixed name: a new best overwrites them
\* in place and never adds a versioned best file.
C17_BestFilesFixedNames ==
    tr.pc # "idle" => BestTagged \subseteq {best_model_path, best_checkpoint_path}

\* C17 witness: a second, later best has been written over the first one, with
\* the full best checkpoint next to it.
C17_Witness ==
    /\ tr.pc # "idle"
    /\ BestTagged = {best_model_path, best_checkpoint_path}
    /\ tr.dir[best_model_path].epoch >= 2
    /\ tr.dir[best_checkpoint_path].epoch >= 2

\* C18: loading a config in which any enum-valued field (dataset, model
\* architecture, scheduler kind, evaluation mode, tracker kind) holds an
\* unknown value does not fail: the load gives a config in which each such
\* field has its default, and a warning is logged for it.
C18_UnknownEnumFallsBack ==
    config_dict.pc = "done" =>
        /\ config_dict.loaded.kind = "config"
        /\ \A f \in EnumFields :
               FieldValue(config_dict.d, f) \notin KnownValues(f) =>
                   /\ config_dict.loaded.config[f].value = DefaultValue(f)
                   /\ f \in config_dict.loaded.warnings

\* An explicit affirmative answer, as typed.
ExplicitYes(a) == a \in {<<"y">>, <<"y", "e", "s">>}

\* C22: without auto-confirm a path is deleted only in a run whose deletion
\* prompt was answered with an explicit yes, and after a declined deletion the
\* rerun is started only when the second prompt was answered with an explicit yes.
C22_DeletionNeedsExplicitYes ==
    /\ [][(rr.pc # "idle" /\ ~rr.args.auto_confirm /\ rr'.tree # rr.tree)
              => ExplicitYes(rr.confirm)]_vars
    /\ [](rr.pc = "done" /\ ~rr.args.auto_confirm
              /\ rr.runs[Len(rr.runs)].outcome = "declined"
            => ExplicitYes(rr.should_continue))

\* C22 witness: the deletion was declined, nothing was deleted, and the rerun
\* was started on the second yes.
C22_Witness ==
    /\ rr.pc = "done" /\ ~rr.args.auto_confirm
    /\ rr.runs[Len(rr.runs)].outcome = "declined"
    /\ rr.runs[Len(rr.runs)].to_remove # <<>>
    /\ rr.tree = rr.runs[Len(rr.runs)].tree

\* The paths a plan deletes: its entries and what lies below them.
Selected(run, p) ==
    \E i \in DOMAIN run.to_remove : p = run.to_remove[i] \/ IsUnder(p, run.to_remove[i])

\* C24: for each requested architecture name the plan selects the directories
\* of the tree whose final segment equals that name and the result files whose
\* name contains it, and the directories it selects by name are those of the
\* requested names.
C24_PlanSelectsByName ==
    (rr.pc # "idle" /\ rr.runs # <<>>) =>
        LET run == rr.runs[Len(rr.runs)]
            names == ToSet(rr.args.rerun_models)
        IN  /\ \A p \in DOMAIN run.tree :
                   /\ (run.tree[p] = "dir" /\ Len(p) >= 2 /\ \E m \in names : Last(p) = <<m>>
                         /\ ~IsUnder(p, cv_dir) /\ ~IsUnder(p, hyperopt_dir))
                        => Selected(run, p)
                   /\ (run.tree[p] = "file" /\ EndsJson(Last(p))
                         /\ \E m \in names : Contains(Last(p), m))
                        => Selected(run, p)
            /\ \A i \in DOMAIN run.to_remove :
                   LET p == run.to_remove[i]
                   IN  (run.tree[p] = "dir" /\ ~IsUnder(p, cv_dir) /\ ~IsUnder(p, hyperopt_dir)
                          /\ p \notin {cv_dir, hyperopt_dir})
                         => \E m \in names : Last(p) = <<m>>

\* C23: with resumable_training a start of the unit loads the checkpoint_epoch
\* file of the highest epoch E and goes on from epoch E + 1 with its model;
\* without it the unit trains from epoch 1 with a fresh model whatever files
\* the directory holds.
C23_ResumeFromHighestEpoch ==
    tr.pc # "idle" =>
        \A i \in DOMAIN tr.resumes :
            LET r == tr.resumes[i]
            IN  /\ (tr.resumable_training /\ r.highest.present
                      /\ r.highest.state = "complete")
                     => /\ r.got.start_epoch = r.highest.epoch + 1
                        /\ r.got.model = r.highest.model
                        /\ r.highest.epoch < tr.epochs => r.got.outcome = "train"
                /\ ~tr.resumable_training
                     => r.got = [outcome |-> "train", start_epoch |-> 1, model |-> 0]

\* C23 witness: a unit started again on a directory with a checkpoint goes on
\* with the epoch after it.
C23_Witness ==
    /\ tr.pc = "train" /\ tr.resumable_training
    /\ tr.resumes # <<>>
    /\ tr.resumes[1].highest.present
    /\ tr.resumes[1].got.outcome = "train"
    /\ tr.epoch = tr.resumes[1].highest.epoch + 1
    /\ tr.epoch >= 2

\* C27: the best-model file is never overwritten by the model of an epoch
\* whose monitored value is worse than that of the best saved before, also
\* when the unit was interrupted and resumed in between.
C27_BestNeverReplacedByWorse ==
    [][(/\ tr.pc # "idle"
        /\ tr.resumable_training
        /\ best_model_path \in DOMAIN tr.dir
        /\ tr.dir[best_model_path].state = "complete"
        /\ best_model_path \in DOMAIN tr'.dir
        /\ tr'.dir[best_model_path].state = "complete")
          => tr'.dir[best_model_path].accuracy >= tr.dir[best_model_path].accuracy]_vars

\* C28: when the training loop has ended, by running out of epochs or by early
\* stopping, the best-model file exists in the checkpoint directory before the
\* unit loads it for the test.
C28_BestModelExistsBeforeTest ==
    tr.pc = "test" => best_model_path \in DOMAIN tr.dir


\* C26: every unit the sweep has started (its loop body was entered) is, when
\* the passes are over, in exactly one of two places: its result is among the
\* architecture results, or its identity is in failed_architectures.
C26_StartedUnitStoredXorFailed ==
    sw.pc = "analysis" =>
        \A u \in sw.skipped \cup sw.invoked :
            (u \in sw.architecture_results) # (u \in ToSet(sw.failed_architectures))

\* C30: when the passes are over, every unit of the matrix that was skipped
\* for lack of space or that failed is in failed_architectures, the list the
\* final result returns unchanged: a unit without a stored result that is not
\* a unit whose training returned is listed.
C30_EveryFailureListed ==
    sw.pc = "analysis" =>
        \A u \in AllUnits(sw) \ sw.completed :
            u \in ToSet(sw.failed_architectures)


\* C25: in a rerun for models_to_rerun, when the passes are over, a unit of
\* the earlier sweep whose architecture is not in models_to_rerun and whose
\* results are on disk was not executed again and its result is among the
\* architecture results of the sweep.
C25_OthersReloaded ==
    (sw.pc = "analysis" /\ sw.models_to_rerun # {}) =>
        \A u \in sw.on_disk :
            u[3] \notin sw.models_to_rerun =>
                (u \notin sw.invoked /\ u \in sw.architecture_results)

\* C21: when a unit has failed, the handler has put it last in
\* failed_architectures and the sweep goes on with the next unit, the next
\* pass or the analysis, whatever was raised while the run was being ended;
\* and when ending the run raised nothing, no tracking run is active after
\* the handler, when the next unit starts.
C21_FailureHandlingEndsRun ==
    sw.pc # "idle" =>
        /\ sw.handled # "none" =>
               /\ sw.pc \in {"unit", "pass_gate", "analysis"}
               /\ sw.failed_architectures # <<>>
               /\ Last(sw.failed_architectures) \in sw.raised
        /\ sw.handled \in {"no_run", "ended"} => ~sw.mlflow_active

\* C29: at any time at most one sampling thread is at work (alive, with
\* monitoring set), and when a unit has finished, by returning or by
\* raising, each monitor it started has been stopped and its thread joined.
C29_OneSamplerStoppedAtUnitEnd ==
    mon.pc # "idle" =>
        /\ Cardinality({i \in DOMAIN mon.monitors :
                            mon.monitors[i].alive /\ mon.monitors[i].monitoring}) <= 1
        /\ \A i \in DOMAIN mon.monitors :
               mon.monitors[i].unit <= Len(mon.finished) =>
                   (~mon.monitors[i].monitoring /\ mon.monitors[i].joined # "no")

\* C35: early_stop is terminal: once it is true on an instance, no later
\* observation on that instance makes it false, whatever the score.
C35_EarlyStopIsTerminal == [][es.early_stop => es'.early_stop]_vars

\* C35 witness: the monitor had stopped and a later observation improved on
\* the best score.
C35_Witness ==
    /\ es.early_stop
    /\ returned # <<>>
    /\ returned[Len(returned)]

\* C36: on each observation the score is improved exactly when it is below
\* best_score - min_delta (mode min) or above best_score + min_delta (mode
\* max), best_score being infinite before the first score; on improvement
\* best_score becomes the score, counter becomes 0 and true is returned;
\* otherwise counter grows by 1, best_score is unchanged and false is returned.
C36_ObservationRule ==
    [][Len(returned') = Len(returned) + 1 =>
          LET score    == es'.trace[Len(es'.trace)]
              improved == IF ~es.best_score.fin THEN TRUE
                          ELSE IF es.mode = "min"
                               THEN score < es.best_score.v - es.min_delta
                               ELSE score > es.best_score.v + es.min_delta
          IN  IF improved
              THEN /\ es'.best_score = [fin |-> TRUE, v |-> score]
                   /\ es'.counter = 0
                   /\ returned'[Len(returned')] = TRUE
              ELSE /\ es'.best_score = es.best_score
                   /\ es'.counter = es.counter + 1
                   /\ returned'[Len(returned')] = FALSE]_vars

\* C36 witness: in mode min with min_delta 1, a score lower than the best one
\* by exactly min_delta was observed and did not count as an improvement,
\* after a score that did.
C36_Witness ==
    /\ es.mode = "min" /\ es.min_delta = 1
    /\ Len(returned) >= 2
    /\ returned[1] /\ ~returned[2]
    /\ es.trace[2] = es.trace[1] - 1

\* C31: a unit started again with resumable_training on a directory whose
\* highest-epoch checkpoint is complete and is that of epoch config.epochs
\* trains no further epoch and does not end by raising.
C31_ResumeAtLastEpochCompletes ==
    (tr.pc # "idle" /\ tr.resumes # <<>>) =>
        LET r == tr.resumes[1]
        IN  (/\ tr.resumable_training
             /\ r.highest.present
             /\ r.highest.state = "complete"
             /\ r.highest.epoch = tr.epochs
             /\ tr.pc # "down") =>
                (tr.model = r.highest.model /\ tr.pc # "failed")

\* The checkpoint_epoch files of a directory.
EpochFiles(dir) == {f \in DOMAIN dir : f[1] = "checkpoint_epoch"}

\* C33: with keep_last_n_checkpoints = K > 0, when a call of
\* save_model_checkpoint has returned, the checkpoint directory holds at most
\* K checkpoint_epoch files.
C33_AtMostKEpochFiles ==
    [][(/\ tr.pc = "save"
        /\ Len(tr.pending) = 1
        /\ tr'.pc \in {"train", "test"}
        /\ tr.keep_last_n_checkpoints > 0) =>
           Cardinality(EpochFiles(tr'.dir)) <= tr.keep_last_n_checkpoints]_vars

\* C34: in a unit with early stopping the monitor is called once at the end
\* of every epoch (so that before and during epoch e of this start it has
\* been called for each earlier epoch, and after the loop for each epoch
\* run), and while its early_stop flag is true the unit is not in its
\* training loop: no further epoch is run.
C34_StopFlagCheckedEveryEpoch ==
    (tr.pc \in {"train", "save", "test"} /\ tr.use_early_stopping) =>
        LET start_epoch == IF tr.resumes = <<>> THEN 1
                           ELSE tr.resumes[1].got.start_epoch
            calls       == Len(tr.early_stopping.trace)
        IN  /\ tr.pc \in {"train", "save"} =>
                   (calls = tr.epoch - start_epoch /\ ~tr.early_stopping.early_stop)
            /\ tr.pc = "test" => calls = tr.epoch - start_epoch + 1

\* C34 witness: the flag became true before the last epoch and the unit is
\* past its loop with that epoch not run.
C34_Witness ==
    /\ tr.pc = "test"
    /\ tr.use_early_stopping
    /\ tr.early_stopping.early_stop
    /\ tr.epoch < tr.epochs
    /\ tr.model = tr.epoch

\* C32: for every unit of the sweep whose training was invoked, the unit's
\* configuration is on disk in both formats, JSON and YAML.
C32_ConfigSavedBeforeTraining ==
    sw.pc # "idle" =>
        \A u \in sw.invoked :
            {<<u, "json">>, <<u, "yaml">>} \subseteq sw.config_files

\* C37: a path whose removal failed is reported (it is in the failures of
\* the run) and main() goes on: it is never left because of the failure,
\* and when the removal loop is over every selected path has had its turn,
\* each one still in the tree being a reported failure, and the rerun is
\* started.
C37_DeletionFailureIsolated ==
    (rr.pc # "idle" /\ rr.runs # <<>>) =>
        LET run == rr.runs[Len(rr.runs)]
        IN  /\ run.failures # {} => rr.pc \in {"remove", "rerun", "done", "plan"}
            /\ (run.failures # {} /\ rr.pc \in {"rerun", "done"}) =>
                   /\ run.outcome = "removed"
                   /\ rr.i = Len(rr.to_remove) + 1
                   /\ \A p \in ToSet(rr.to_remove) :
                          p \in DOMAIN rr.tree => p \in run.failures

\* C37 witness: the rerun was started after a removal loop in which one path
\* failed and a later path, not below an earlier one, was removed.
C37_Witness ==
    /\ rr.pc = "done"
    /\ rr.runs # <<>>
    /\ LET run == rr.runs[Len(rr.runs)]
       IN  \E k, j \in DOMAIN rr.to_remove :
               /\ k < j
               /\ rr.to_remove[k] \in run.failures
               /\ rr.to_remove[j] \in DOMAIN run.tree
               /\ rr.to_remove[j] \notin DOMAIN rr.tree
               /\ \A m \in 1..(j - 1) :
                      /\ rr.to_remove[m] # rr.to_remove[j]
                      /\ ~IsUnder(rr.to_remove[j], rr.to_remove[m])

\* C38: a fold whose training or evaluation raised does not end the k-fold
\* run: the loop goes on, and when it is over every fold of the run has been
\* attempted (it raised or it returned a summary).
C38_FoldFailureIsolated ==
    (cv.pc # "idle" /\ cv.raised # {}) =>
        /\ cv.pc \in {"fold", "aggregate", "done"}
        /\ cv.pc = "fold" => cv.fold < cv.n_folds
        /\ cv.pc \in {"aggregate", "done"} =>
               \A f \in 1..cv.n_folds : f \in cv.raised \cup DOMAIN cv.returned

\* C38 witness: a finished k-fold run in which a fold raised and a later fold
\* returned a summary.
C38_Witness ==
    /\ cv.pc = "done"
    /\ \E f \in cv.raised : \E g \in DOMAIN cv.returned : f < g

\* C39: the start of a unit on a directory whose latest checkpoint is whole
\* fails at the restoring exactly when the checkpoint has no model state;
\* a checkpoint without optimizer state or scheduler state is restored.
C39_RestoreToleratesMissingStates ==
    (tr.pc # "idle" /\ tr.resumes # <<>> /\ tr.resumes[1].highest.state = "complete") =>
        LET got  == tr.resumes[1].got
            keys == tr.resumes[1].highest.keys
        IN  got.outcome = "key_error" <=> "model_state_dict" \notin keys

\* The keep newest of the entries the cleanup lists.
NewestListed(dir, keep) ==
    {d \in ExpDirs(dir) :
        Cardinality({g \in ExpDirs(dir) : dir[g].mtime > dir[d].mtime}) < keep}

\* C40: a rerun removes no entry of the outputs directory; a new sweep
\* removes whole directories only, an older one before a newer one, never
\* one of the keep_newest most recently modified ones, and when no removal
\* failed those are the only prior outputs left.
C40_CleanupKeepsNewestRemovesOldestFirst ==
    out.pc # "idle" =>
        /\ out.rerun_experiment_id => (out.removed = <<>> /\ out.dir = out.dir0)
        /\ \A k \in DOMAIN out.removed : out.dir0[out.removed[k]].is_dir
        /\ \A j, k \in DOMAIN out.removed :
               j < k => out.dir0[out.removed[j]].mtime < out.dir0[out.removed[k]].mtime
        /\ NewestListed(out.dir0, KeepNewest) \subseteq DOMAIN out.dir
        /\ (out.pc \in {"mkdir", "done"} /\ ~out.rerun_experiment_id /\ out.failed = {}) =>
               ExpDirs(out.dir0) \cap DOMAIN out.dir = NewestListed(out.dir0, KeepNewest)

====
